---- MODULE Spec2Model ----
(***************************************************************************)
(* Health-check scheduling and alert-lifecycle engine of server-monitor.   *)
(*                                                                         *)
(* The model follows backend/scheduler.js (processCheckResult, the retest  *)
(* queue, the full scan, the throttle sweep), backend/database.js (the     *)
(* alerts and server_checks tables), backend/checker.js                    *)
(* (checkServer, checkSSLCertificate, getServerStatus) and                  *)
(* backend/api/alerts.js (the status-update handlers).                     *)
(*                                                                         *)
(* Time is the value of Date.now() in milliseconds.  Every handler runs    *)
(* on one JavaScript thread, so an action is the code between two awaits.  *)
(*                                                                         *)
(* Specifications:                                                         *)
(*   Spec         every job of startScheduler and the status handlers of   *)
(*                the alerts API, one endpoint, thresholds 1..MaxT         *)
(*   SpecReopen   the same handlers with a second status update            *)
(*   SpecEngine   the jobs of startScheduler alone                         *)
(*   SpecThrottle shouldSendAlert as a function                            *)
(*   SpecLive     the scan and retest jobs on their cron schedule, for an  *)
(*                endpoint that stays offline                              *)
(*   SpecFleet    the scan and retest jobs over two endpoints, with the    *)
(*                errors the code catches                                  *)
(*   SpecRetest   the retest queue of two endpoints; SpecRetestFair adds   *)
(*                the fairness of the clock, the retest job and the probes *)
(*   SpecBatches  a full scan of a list longer than one batch              *)
(*   SpecGroup    sendCustomerGroupedAlerts as a function                  *)
(*   SpecProbe    checkServer and getServerStatus as functions of what the *)
(*                network answers                                          *)
(*   SpecCleanup  the check store with cleanOldChecks as database.js       *)
(*                exports it, the clock counting days                      *)
(*   SpecApi      the two status-update handlers as functions of a request *)
(*   SpecReload   the scan and retest jobs beside the upload of another    *)
(*                server list                                              *)
(*   SpecLongReload a full scan of a list longer than one batch beside the *)
(*                upload of another server list                            *)
(***************************************************************************)
EXTENDS Integers, Sequences, FiniteSets, TLC

VARIABLES
    now,             \* Date.now()
    csv,             \* rows of data/servers.csv (enabled servers)
    servers,         \* scheduler.js: let servers
    isChecking,      \* scheduler.js: let isChecking
    retestQueue,     \* scheduler.js: let retestQueue
    drains,          \* processRetestQueue calls in flight: their itemsToRetest
    scanBatch,       \* checkAllServers: servers of the current batch still being probed
    scanRest,        \* checkAllServers: servers of the later batches
    allPendingAlerts,\* checkAllServers: const allPendingAlerts
    outbox,          \* groups handed to sendCustomerGroupAlert by the last cycle
    sweep,           \* processAlertQueue in flight: rest of its activeAlerts snapshot
    sweeping,        \* a processAlertQueue call is suspended in await sendAlertEmail
    checks,          \* server_checks: the most recent row of each endpoint
    alerts,          \* alerts table, in insertion order; an alert's id is its index
    notifCount,      \* history: notifications issued for each alert
    lastNotifAt,     \* history: instant of the last notification of each alert
    streak,          \* history: offline results processed in a row, per endpoint
    lastOp,          \* history: the handler that took the last step
    apiBudget,       \* status updates the alerts API may still receive
    fnArg,           \* argument of the function under test (function specifications)
    fnRes,           \* its result
    cron,            \* position in the cron schedule (timed specification)
    scans,           \* history: checkAllServers calls past the guard, not yet returned
    cycle            \* history: the list the last scan cycle loaded (const
                     \* currentServers) and how often each row was handled by it

vars == <<now, csv, servers, isChecking, retestQueue, drains, scanBatch, scanRest,
          allPendingAlerts, outbox, sweep, sweeping, checks, alerts, notifCount,
          lastNotifAt, streak, lastOp, apiBudget, fnArg, fnRes, cron, scans,
          cycle>>

(***************************************************************************)
(* Bounds of the model.                                                    *)
(***************************************************************************)
MaxT == 3
MaxAlerts == 2
MaxDrains == 2
MaxApiCalls == 1
MaxReopenCalls == 2
ReopenT == 2
LiveMaxT == 4
ProbeMs == 1000
MaxGroups == 2
MaxPending == 3
FleetMaxT == 2

(***************************************************************************)
(* Program constants.                                                      *)
(***************************************************************************)
HourMs == 3600000
DayMs == 86400000
RetestDelayMs == 60000
DefaultFailureThreshold == 3
DefaultSslAlertDays == 30
SlowResponseMs == 5000
BatchSize == 10
MinuteMs == 60000
ScanEveryMin == 5

Null == <<>>
Some(x) == <<x>>

Min(a, b) == IF a < b THEN a ELSE b
Max(a, b) == IF a > b THEN a ELSE b

StreakCap == MaxT + 1

IssueTypes == {"offline", "ssl_failed", "ssl_expiring", "slow_response"}
Statuses == {"new", "in_process", "done", "abort"}
OpenStatuses == {"new", "in_process"}

\* The instants at which a handler may run: they straddle the retest delay
\* and both throttle windows.
Instants == {0, HourMs, DayMs + HourMs}

(***************************************************************************)
(* Endpoint descriptors: the rows of servers.csv.  A column holding 0      *)
(* stands for a missing or unparsable value.                               *)
(***************************************************************************)
UrlA == "https://a.test"
UrlB == "http://b.test"
UrlC == "http://c.test"
Urls == {UrlA, UrlB, UrlC}

ServerA(t) == [name |-> "a", url |-> UrlA, failure_threshold |-> t,
               ssl_alert_days |-> 30, alert_email |-> "ops@acme.test",
               customer |-> "Acme"]

\* two plain-HTTP endpoints of different customers
ServerB == [name |-> "b", url |-> UrlB, failure_threshold |-> 2,
            ssl_alert_days |-> 30, alert_email |-> "ops@acme.test",
            customer |-> "Acme"]

ServerC == [name |-> "c", url |-> UrlC, failure_threshold |-> 2,
            ssl_alert_days |-> 30, alert_email |-> "noc@beta.test",
            customer |-> "Beta"]

\* an endpoint without recipient address and one without customer name
ServerD == [name |-> "d", url |-> "http://d.test", failure_threshold |-> 2,
            ssl_alert_days |-> 30, alert_email |-> "", customer |-> "Acme"]

ServerE == [name |-> "e", url |-> "http://e.test", failure_threshold |-> 2,
            ssl_alert_days |-> 30, alert_email |-> "ops@acme.test", customer |-> ""]

\* loadServers: the enabled rows of the file, in file order
loadServers(file) == file

\* parseInt(server.failure_threshold) || 3
failureThreshold(server) ==
    IF server.failure_threshold = 0 THEN DefaultFailureThreshold
    ELSE server.failure_threshold

\* parseInt(server.ssl_alert_days) || 30
sslAlertDays(server) ==
    IF server.ssl_alert_days = 0 THEN DefaultSslAlertDays ELSE server.ssl_alert_days

\* url.startsWith('https://')
IsHttps(url) == url \in {UrlA}

(***************************************************************************)
(* checkServer: the results a probe of a server can return.                *)
(***************************************************************************)
CheckResult(url, online, rt, sslValid, days) ==
    [server_url |-> url, is_online |-> online, response_time |-> rt,
     ssl_valid |-> sslValid, ssl_days_remaining |-> days]

ProbeResults(server) ==
    IF IsHttps(server.url)
    THEN { CheckResult(server.url, TRUE, Some(120), "true", Some(90)),
           CheckResult(server.url, FALSE, Null, "false", Null),
           CheckResult(server.url, FALSE, Null, "true", Some(90)) }
    ELSE { CheckResult(server.url, TRUE, Some(120), "null", Null),
           CheckResult(server.url, FALSE, Null, "null", Null) }

DownResults(server) == {r \in ProbeResults(server) : ~r.is_online}

(***************************************************************************)
(* checker.js getServerStatus: the issues of a result, in the order pushed *)
(***************************************************************************)
getServerStatus(checkResult, alertDays) ==
    LET off == IF ~checkResult.is_online THEN <<"offline">> ELSE <<>>
        ssl == IF IsHttps(checkResult.server_url)
               THEN IF checkResult.ssl_valid = "false" THEN <<"ssl_failed">>
                    ELSE IF checkResult.ssl_days_remaining # Null
                            /\ checkResult.ssl_days_remaining[1] <= alertDays
                         THEN <<"ssl_expiring">>
                         ELSE <<>>
               ELSE <<>>
        slow == IF checkResult.response_time # Null
                   /\ checkResult.response_time[1] # 0
                   /\ checkResult.response_time[1] > SlowResponseMs
                THEN <<"slow_response">> ELSE <<>>
    IN  off \o ssl \o slow

(***************************************************************************)
(* database.js: the alerts table.                                          *)
(***************************************************************************)
\* INSERT with status 'new', created_at = last_alerted_at = Date.now(); the
\* columns resolved_at and alert_count take their defaults (NULL and 1)
createAlert(al, alertData, t) ==
    Append(al, [id |-> alertData.id, server_url |-> alertData.server_url,
                issue_type |-> alertData.issue_type, status |-> "new",
                created_at |-> t, last_alerted_at |-> t, resolved_at |-> Null,
                alert_count |-> 1])

\* SELECT ... WHERE status IN ('new','in_process') ORDER BY created_at DESC:
\* every order of the open alerts the query may return (rows of equal
\* created_at come in any order)
getActiveAlerts(al) ==
    LET open == {i \in 1..Len(al) : al[i].status \in OpenStatuses}
        n == Cardinality(open)
    IN  { [k \in 1..n |-> [id |-> al[f[k]].id, server_url |-> al[f[k]].server_url,
                            issue_type |-> al[f[k]].issue_type,
                            status |-> al[f[k]].status,
                            last_alerted_at |-> al[f[k]].last_alerted_at]] :
            f \in { g \in [1..n -> open] :
                      /\ \A i, j \in 1..n : i # j => g[i] # g[j]
                      /\ \A i, j \in 1..n :
                           i < j => al[g[i]].created_at >= al[g[j]].created_at } }

getAlertById(al, id) == IF id \in 1..Len(al) THEN Some(al[id]) ELSE Null

\* a variant of updateAlertStatus that leaves the resolution time of a
\* reopened alert in place
KeepsResolutionStamp(al, id, status, t) ==
    LET resolvedAt == IF status = "done" \/ status = "abort" THEN Some(t)
                      ELSE al[id].resolved_at
    IN  [al EXCEPT ![id].status = status, ![id].resolved_at = resolvedAt]

\* UPDATE alerts SET status = ?, resolved_at = ? WHERE id = ?
updateAlertStatus(al, id, status, t) ==
    LET resolvedAt == IF status = "done" \/ status = "abort" THEN Some(t) ELSE Null
    IN  [al EXCEPT ![id].status = status, ![id].resolved_at = resolvedAt]

\* a variant of updateAlertLastAlerted that also moves the alert to in_process
AlsoAcknowledges(al, id, t) ==
    [al EXCEPT ![id].last_alerted_at = t, ![id].alert_count = @ + 1,
               ![id].status = "in_process"]

\* UPDATE alerts SET last_alerted_at = ?, alert_count = alert_count + 1 WHERE id = ?
updateAlertLastAlerted(al, id, t) ==
    [al EXCEPT ![id].last_alerted_at = t, ![id].alert_count = @ + 1]

\* SELECT ... WHERE server_url = ? AND issue_type = ? AND status IN
\* ('new','in_process') LIMIT 1: the ids of the rows the query may return
\* (there is no ORDER BY)
getAlertByServerAndType(al, serverUrl, issueType) ==
    {i \in 1..Len(al) : /\ al[i].server_url = serverUrl
                        /\ al[i].issue_type = issueType
                        /\ al[i].status \in OpenStatuses}

(***************************************************************************)
(* database.js: the server_checks table.  Only the most recent row of an   *)
(* endpoint is read or updated; rows of one endpoint are recorded at       *)
(* distinct instants, so the most recent row is the last one inserted.     *)
(* is_online is stored as 1 or 0.                                          *)
(***************************************************************************)
recordServerCheck(rows, checkData) ==
    [rows EXCEPT ![checkData.server_url] =
        Some([is_online |-> IF checkData.is_online THEN 1 ELSE 0,
              consecutive_failures |-> 0])]

getLastCheckForServer(rows, serverUrl) == rows[serverUrl]

updateConsecutiveFailures(rows, serverUrl, consecutiveFailures) ==
    IF rows[serverUrl] = Null THEN rows
    ELSE [rows EXCEPT ![serverUrl] =
            Some([rows[serverUrl][1] EXCEPT !.consecutive_failures = consecutiveFailures])]

(***************************************************************************)
(* scheduler.js                                                            *)
(***************************************************************************)
\* a variant of shouldSendAlert whose windows open strictly after 1 h and 24 h
StrictlyLater(alert, t) ==
    IF alert = Null THEN TRUE
    ELSE LET timeSinceLastAlert == t - alert[1].last_alerted_at
         IN  IF alert[1].status = "new" THEN timeSinceLastAlert > HourMs
             ELSE IF alert[1].status = "in_process" THEN timeSinceLastAlert > DayMs
             ELSE FALSE

\* shouldSendAlert(alert) evaluated at Date.now() = t; alert is Null or Some(row)
shouldSendAlert(alert, t) ==
    IF alert = Null THEN TRUE
    ELSE LET timeSinceLastAlert == t - alert[1].last_alerted_at
         IN  IF alert[1].status = "new" THEN timeSinceLastAlert >= HourMs
             ELSE IF alert[1].status = "in_process" THEN timeSinceLastAlert >= DayMs
             ELSE FALSE

\* a variant of scheduleRetest that empties the queue first
DropsEveryTask(queue, server, currentFailures, t) ==
    << [server |-> server, currentFailures |-> currentFailures,
        retestTime |-> t + RetestDelayMs] >>

\* a variant of scheduleRetest that does not remove the server's earlier task
KeepsOldTask(queue, server, currentFailures, t) ==
    Append(queue, [server |-> server, currentFailures |-> currentFailures,
                   retestTime |-> t + RetestDelayMs])

scheduleRetest(queue, server, currentFailures, t) ==
    Append(SelectSeq(queue, LAMBDA item : item.server.url # server.url),
           [server |-> server, currentFailures |-> currentFailures,
            retestTime |-> t + RetestDelayMs])

\* the loop over status.issues of processCheckResult; pick[type] is the row
\* getAlertByServerAndType returned for the issue type (0: none)
RECURSIVE processIssues(_, _, _, _, _, _)
processIssues(issues, al, pendingAlerts, server, pick, t) ==
    IF issues = <<>> THEN [alerts |-> al, pendingAlerts |-> pendingAlerts]
    ELSE
      LET type == Head(issues)
          existingAlert == IF pick[type] = 0 THEN Null ELSE Some(al[pick[type]])
      IN  IF existingAlert # Null
          THEN IF shouldSendAlert(existingAlert, t)
               THEN processIssues(Tail(issues),
                        updateAlertLastAlerted(al, existingAlert[1].id, t),
                        Append(pendingAlerts,
                               [id |-> existingAlert[1].id, issue_type |-> type,
                                alert_count |-> existingAlert[1].alert_count + 1,
                                server |-> server, isNew |-> FALSE]),
                        server, pick, t)
               ELSE processIssues(Tail(issues), al, pendingAlerts, server, pick, t)
          ELSE processIssues(Tail(issues),
                   createAlert(al, [id |-> Len(al) + 1, server_url |-> server.url,
                                    issue_type |-> type, status |-> "new"], t),
                   Append(pendingAlerts,
                          [id |-> Len(al) + 1, issue_type |-> type, alert_count |-> 1,
                           server |-> server, isNew |-> TRUE]),
                   server, pick, t)

\* a variant whose online branch keeps the count a retest task carries
CarriesCountOnline(checkResult, lastCheck, previousFailures) ==
    IF ~checkResult.is_online
    THEN IF previousFailures > 0 THEN previousFailures + 1
         ELSE IF lastCheck # Null /\ lastCheck[1].is_online = 0
              THEN lastCheck[1].consecutive_failures + 1
              ELSE 1
    ELSE previousFailures

\* a variant that derives the count of a retest from the check store
DerivesFromStore(checkResult, lastCheck, previousFailures) ==
    IF ~checkResult.is_online
    THEN IF lastCheck # Null /\ lastCheck[1].is_online = 0
         THEN lastCheck[1].consecutive_failures + 1
         ELSE 1
    ELSE 0

\* the consecutive-failure count processCheckResult computes for a result
consecutiveFailuresOf(checkResult, lastCheck, previousFailures) ==
    IF ~checkResult.is_online
    THEN IF previousFailures > 0 THEN previousFailures + 1
         ELSE IF lastCheck # Null /\ lastCheck[1].is_online = 0
              THEN lastCheck[1].consecutive_failures + 1
              ELSE 1
    ELSE 0

\* a variant that tolerates every failure
AlwaysTolerates(consecutiveFailures, failureThreshold_) == TRUE

\* a variant that never takes the early return
NeverTolerates(consecutiveFailures, failureThreshold_) == FALSE

\* if (consecutiveFailures < failureThreshold): schedule a retest and return
belowThreshold(consecutiveFailures, failureThreshold_) ==
    consecutiveFailures < failureThreshold_

\* processCheckResult(server, checkResult, previousFailures): the store, the
\* retest queue and the pending alerts it leaves
processCheckResult(server, checkResult, previousFailures, pick, t) ==
    LET rows1 == recordServerCheck(checks, checkResult)
        lastCheck == getLastCheckForServer(rows1, server.url)
        consecutiveFailures ==
            consecutiveFailuresOf(checkResult, lastCheck, previousFailures)
        rows2 == updateConsecutiveFailures(rows1, server.url, consecutiveFailures)
        tolerated == /\ ~checkResult.is_online
                     /\ belowThreshold(consecutiveFailures, failureThreshold(server))
        status == getServerStatus(checkResult, sslAlertDays(server))
        done == processIssues(status, alerts, <<>>, server, pick, t)
    IN  IF tolerated
        THEN [checks |-> rows2,
              retestQueue |-> scheduleRetest(retestQueue, server, consecutiveFailures, t),
              alerts |-> alerts, pendingAlerts |-> <<>>, tolerated |-> TRUE]
        ELSE [checks |-> rows2, retestQueue |-> retestQueue,
              alerts |-> done.alerts, pendingAlerts |-> done.pendingAlerts,
              tolerated |-> FALSE]

\* the rows getAlertByServerAndType may return for the issues of a result
Picks(server, checkResult) ==
    LET status == getServerStatus(checkResult, sslAlertDays(server))
        in == {status[i] : i \in 1..Len(status)}
    IN  { p \in [IssueTypes -> 0..Len(alerts)] :
            \A type \in IssueTypes :
              LET cand == getAlertByServerAndType(alerts, server.url, type)
              IN  IF type \in in /\ cand # {} THEN p[type] \in cand ELSE p[type] = 0 }

\* sendCustomerGroupedAlerts: the groups built from the pending alerts, in the
\* order of Object.entries (first insertion of each `${customer}|${email}` key)
RECURSIVE groupAlerts(_, _)
\* a variant of the grouping that does not skip the items without recipient
GroupsWithoutRecipient(items, customerGroups) ==
    IF items = <<>> THEN customerGroups
    ELSE
      LET item == Head(items)
          customer == IF item.server.customer = "" THEN "Unknown"
                      ELSE item.server.customer
          email == item.server.alert_email
          entry == [url |-> item.server.url, issue_type |-> item.issue_type,
                    alert_count |-> item.alert_count, isNew |-> item.isNew]
          key == customer \o "|" \o email
          at == {k \in 1..Len(customerGroups) :
                   customerGroups[k].customer \o "|" \o customerGroups[k].email = key}
      IN  IF at = {}
          THEN groupAlerts(Tail(items),
                           Append(customerGroups,
                                  [customer |-> customer, email |-> email,
                                   servers |-> <<entry>>]))
          ELSE LET k == CHOOSE k \in at : TRUE
               IN  groupAlerts(Tail(items),
                       [customerGroups EXCEPT ![k].servers = Append(@, entry)])

groupAlerts(items, customerGroups) ==
    IF items = <<>> THEN customerGroups
    ELSE
      LET item == Head(items)
          customer == IF item.server.customer = "" THEN "Unknown"
                      ELSE item.server.customer
          email == item.server.alert_email
          entry == [url |-> item.server.url, issue_type |-> item.issue_type,
                    alert_count |-> item.alert_count, isNew |-> item.isNew]
          key == customer \o "|" \o email
          at == {k \in 1..Len(customerGroups) :
                   customerGroups[k].customer \o "|" \o customerGroups[k].email = key}
      IN  IF email = "" THEN groupAlerts(Tail(items), customerGroups)
          ELSE IF at = {}
          THEN groupAlerts(Tail(items),
                           Append(customerGroups,
                                  [customer |-> customer, email |-> email,
                                   servers |-> <<entry>>]))
          ELSE LET k == CHOOSE k \in at : TRUE
               IN  groupAlerts(Tail(items),
                       [customerGroups EXCEPT ![k].servers = Append(@, entry)])

\* emailer.js: the names of module.exports
emailerExports == {"loadSMTPConfig", "sendAlertEmail", "sendWeeklyReport",
                   "testSMTPConnection", "getAlertTemplate"}

\* sendCustomerGroupAlert: the messages that reach the notifier for a group
\* (if (emailer.sendEmail) await emailer.sendEmail(group.email, subject, body))
sendCustomerGroupAlert(group) ==
    IF "sendEmail" \in emailerExports
    THEN << [to |-> group.email, customer |-> group.customer,
             entries |-> group.servers] >>
    ELSE <<>>

RECURSIVE dispatchGroups(_, _, _, _)
\* a variant of the dispatch loop that gives up at the first group that fails
StopsAtFirstFailure(groups, k, failing, acc) ==
    IF k > Len(groups) THEN acc
    ELSE
      LET threw == k \in failing
          sent == IF threw THEN <<>> ELSE sendCustomerGroupAlert(groups[k])
          acc2 == [attempted |-> Append(acc.attempted,
                                        [customer |-> groups[k].customer,
                                         email |-> groups[k].email,
                                         servers |-> groups[k].servers,
                                         failed |-> threw]),
                   mailed |-> acc.mailed \o sent]
      IN  IF threw THEN acc2 ELSE dispatchGroups(groups, k + 1, failing, acc2)

\* the loop over Object.entries(customerGroups): each group is handed to
\* sendCustomerGroupAlert inside its own try/catch; `failing` are the groups
\* whose dispatch throws
dispatchGroups(groups, k, failing, acc) ==
    IF k > Len(groups) THEN acc
    ELSE
      LET threw == k \in failing
          sent == IF threw THEN <<>> ELSE sendCustomerGroupAlert(groups[k])
          acc2 == [attempted |-> Append(acc.attempted,
                                        [customer |-> groups[k].customer,
                                         email |-> groups[k].email,
                                         servers |-> groups[k].servers,
                                         failed |-> threw]),
                   mailed |-> acc.mailed \o sent]
      IN  dispatchGroups(groups, k + 1, failing, acc2)

\* sendCustomerGroupedAlerts: the groups handed to sendCustomerGroupAlert and
\* the messages handed to the notifier
sendCustomerGroupedAlerts(allPending, failing) ==
    dispatchGroups(groupAlerts(allPending, <<>>), 1, failing,
                   [attempted |-> <<>>, mailed |-> <<>>])

\* the body of the for loop of processAlertQueue up to its next await: the
\* snapshot rows skipped, the row that is re-alerted (if any), the rows left
RECURSIVE alertQueueLoop(_, _, _, _)
alertQueueLoop(activeAlerts, al, loaded, t) ==
    IF activeAlerts = <<>> THEN [alerts |-> al, rest |-> <<>>, sent |-> 0]
    ELSE
      LET alert == Head(activeAlerts)
          found == \E k \in 1..Len(loaded) : loaded[k].url = alert.server_url
      IN  IF shouldSendAlert(Some(alert), t) /\ found
          THEN [alerts |-> updateAlertLastAlerted(al, alert.id, t),
                rest |-> Tail(activeAlerts), sent |-> alert.id]
          ELSE alertQueueLoop(Tail(activeAlerts), al, loaded, t)

(***************************************************************************)
(* Helpers of the actions.                                                 *)
(***************************************************************************)
RECURSIVE Flatten(_)
Flatten(seqs) == IF seqs = <<>> THEN <<>> ELSE Head(seqs) \o Flatten(Tail(seqs))

\* a variant of the slice that takes the whole list
TakesAll(s, n) == s

Take(s, n) == SubSeq(s, 1, Min(n, Len(s)))
Drop(s, n) == SubSeq(s, Min(n, Len(s)) + 1, Len(s))

\* a variant whose first callback is taken as returned without a probe
FirstSlotSkipped(list) ==
    [k \in 1..Len(list) |-> [server |-> list[k], done |-> k = 1, pendingAlerts |-> <<>>]]

NewBatch(list) ==
    [k \in 1..Len(list) |-> [server |-> list[k], done |-> FALSE, pendingAlerts |-> <<>>]]

IdsOf(pending) == {pending[k].id : k \in 1..Len(pending)}

\* the history of notifications after the alerts in `pending` were handed on
Counted(al2, pending) ==
    [i \in 1..Len(al2) |->
        (IF i <= Len(notifCount) THEN notifCount[i] ELSE 0)
        + Cardinality({k \in 1..Len(pending) : pending[k].id = i})]

Stamped(al2, pending, t) ==
    [i \in 1..Len(al2) |->
        IF i \in IdsOf(pending) THEN t
        ELSE IF i <= Len(lastNotifAt) THEN lastNotifAt[i] ELSE 0]

TasksFor(queue, url) == {k \in 1..Len(queue) : queue[k].server.url = url}

InFlightFor(ds, url) ==
    UNION { { <<d, k>> : k \in {j \in 1..Len(ds[d]) : ds[d][j].server.url = url} } :
            d \in 1..Len(ds) }

\* the history variables after a result of `server` was processed
History(server, checkResult, op) ==
    /\ streak' = [streak EXCEPT ![server.url] =
                    IF checkResult.is_online THEN 0 ELSE Min(@ + 1, StreakCap)]
    /\ lastOp' = [op |-> op, url |-> server.url, online |-> checkResult.is_online]

Op(name) == [op |-> name, url |-> "", online |-> FALSE]

\* no scan cycle has loaded a list yet
NoCycle == [currentServers |-> <<>>, handled |-> <<>>]

\* const currentServers = loadServers(): a cycle past the guard holds this list
NewCycle(currentServers) ==
    [currentServers |-> currentServers,
     handled |-> [k \in 1..Len(currentServers) |-> 0]]

\* the callback of slot i of the batch in flight has returned
Handled(i) ==
    LET k == Len(cycle.currentServers) - Len(scanRest) - Len(scanBatch) + i
    IN  [cycle EXCEPT !.handled[k] = @ + 1]

\* the cron position of the specifications that do not follow the schedule
NoCron == [minute |-> 0, probed |-> FALSE]

(***************************************************************************)
(* Initial state: startScheduler has loaded the server list.               *)
(***************************************************************************)
\* the scheduler at rest: nothing in flight, empty tables
Idle(file, budget) ==
    /\ csv = file
    /\ servers = loadServers(file)
    /\ isChecking = FALSE
    /\ retestQueue = <<>>
    /\ drains = <<>>
    /\ scanBatch = <<>>
    /\ scanRest = <<>>
    /\ allPendingAlerts = <<>>
    /\ outbox = <<>>
    /\ sweep = <<>>
    /\ sweeping = FALSE
    /\ checks = [u \in Urls |-> Null]
    /\ alerts = <<>>
    /\ notifCount = <<>>
    /\ lastNotifAt = <<>>
    /\ streak = [u \in Urls |-> 0]
    /\ lastOp = Op("init")
    /\ apiBudget = budget
    /\ cycle = NoCycle

InitWith(file, budget) ==
    /\ now = 0
    /\ Idle(file, budget)
    /\ fnArg = Null
    /\ fnRes = Null
    /\ cron = NoCron
    /\ scans = 0

\* one endpoint, with any failure threshold up to MaxT
Init == \E t \in 1..MaxT : InitWith(<<ServerA(t)>>, MaxApiCalls)

(***************************************************************************)
(* The clock.                                                              *)
(***************************************************************************)
Tick ==
    /\ \E t \in Instants : t > now /\ now' = t
    /\ lastOp' = Op("engine")
    /\ UNCHANGED <<csv, servers, isChecking, retestQueue, drains, scanBatch, scanRest,
                   allPendingAlerts, outbox, sweep, sweeping, checks, alerts,
                   notifCount, lastNotifAt, streak, apiBudget, fnArg, fnRes, cron, scans, cycle>>

(***************************************************************************)
(* checkAllServers                                                         *)
(***************************************************************************)
\* a variant of the release that leaves the guard as it is
KeepsGuard(flag) == flag

\* finally { isChecking = false; } (and isChecking = false before the early
\* return on an empty list)
releaseGuard(flag) == FALSE

\* a variant of the guard that lets every trigger through
NeverSkips(flag) == FALSE

\* if (isChecking) { ...; return; }
scanInProgress(flag) == flag

\* a trigger (cron, start-up timer, POST /check-all) while no scan is running:
\* the list is reloaded and the probes of the first batch start
ScanStart ==
    /\ ~scanInProgress(isChecking)
    /\ LET currentServers == loadServers(csv)
       IN  /\ servers' = currentServers
           /\ cycle' = NewCycle(currentServers)
           /\ IF Len(currentServers) = 0
              THEN /\ isChecking' = releaseGuard(TRUE)
                   /\ UNCHANGED <<scanBatch, scanRest, scans>>
              ELSE /\ isChecking' = TRUE
                   /\ scans' = scans + 1
                   /\ scanBatch' = NewBatch(Take(currentServers, BatchSize))
                   /\ scanRest' = Drop(currentServers, BatchSize)
    /\ allPendingAlerts' = <<>>
    /\ lastOp' = Op("engine")
    /\ UNCHANGED <<now, csv, retestQueue, drains, outbox, sweep, sweeping, checks,
                   alerts, notifCount, lastNotifAt, streak,
                   apiBudget, fnArg, fnRes, cron>>

\* a trigger while a scan is running returns at once
ScanSkipped ==
    /\ scanInProgress(isChecking)
    /\ lastOp' = Op("skipped")
    /\ UNCHANGED <<now, csv, servers, isChecking, retestQueue, drains, scanBatch,
                   scanRest, allPendingAlerts, outbox, sweep, sweeping, checks,
                   alerts, notifCount, lastNotifAt, streak,
                   apiBudget, fnArg, fnRes, cron, scans, cycle>>

\* a variant in which an error of one server ends the probes of the batch
AbortsBatch(batch, i) ==
    [k \in 1..Len(batch) |-> [batch[k] EXCEPT !.done = TRUE, !.pendingAlerts = <<>>]]

\* catch (error) { ...; return []; } in the callback of a server of the batch
slotFailed(batch, i) == [batch EXCEPT ![i].done = TRUE, ![i].pendingAlerts = <<>>]

\* a callback of the batch has returned: the batch goes on, or the next batch
\* starts, or, after the last batch, the grouped alerts are dispatched and the
\* guard is released
SlotDone(batch2, failing) ==
    LET batchOver == \A k \in 1..Len(batch2) : batch2[k].done
        collected == allPendingAlerts
                       \o Flatten([k \in 1..Len(batch2) |-> batch2[k].pendingAlerts])
    IN  IF ~batchOver
        THEN /\ scanBatch' = batch2
             /\ UNCHANGED <<isChecking, scanRest, allPendingAlerts, outbox, scans>>
        ELSE IF scanRest # <<>>
        THEN /\ scanBatch' = NewBatch(Take(scanRest, BatchSize))
             /\ scanRest' = Drop(scanRest, BatchSize)
             /\ allPendingAlerts' = collected
             /\ UNCHANGED <<isChecking, outbox, scans>>
        ELSE /\ scanBatch' = <<>>
             /\ allPendingAlerts' = <<>>
             /\ outbox' = sendCustomerGroupedAlerts(collected, failing).attempted
             /\ isChecking' = releaseGuard(isChecking)
             /\ scans' = scans - 1
             /\ UNCHANGED scanRest

\* the probe of slot i of the batch returns checkResult and the result is
\* processed; the last result of a batch starts the next batch or, after the
\* last batch, dispatches the grouped alerts (the dispatch of the groups in
\* `failing` throws) and releases the guard
ScanEvalFull(i, checkResult, pick, failing) ==
    /\ isChecking
    /\ i \in 1..Len(scanBatch)
    /\ ~scanBatch[i].done
    /\ LET server == scanBatch[i].server
           res == processCheckResult(server, checkResult, 0, pick, now)
           batch2 == [scanBatch EXCEPT ![i].done = TRUE,
                                       ![i].pendingAlerts = res.pendingAlerts]
       IN  /\ Len(res.alerts) <= MaxAlerts
           /\ checks' = res.checks
           /\ retestQueue' = res.retestQueue
           /\ alerts' = res.alerts
           /\ notifCount' = Counted(res.alerts, res.pendingAlerts)
           /\ lastNotifAt' = Stamped(res.alerts, res.pendingAlerts, now)
           /\ History(server, checkResult, "scan")
           /\ SlotDone(batch2, failing)
           /\ cycle' = Handled(i)
    /\ UNCHANGED <<now, csv, servers, drains, sweep, sweeping, apiBudget, fnArg, fnRes, cron>>

\* the same when no dispatch fails
ScanEvalWith(i, checkResult, pick) == ScanEvalFull(i, checkResult, pick, {})

ScanEval ==
    \E i \in 1..Len(scanBatch) :
      \E checkResult \in ProbeResults(scanBatch[i].server) :
        \E pick \in Picks(scanBatch[i].server, checkResult) :
          ScanEvalWith(i, checkResult, pick)

(***************************************************************************)
(* processRetestQueue                                                      *)
(***************************************************************************)
\* retestQueue.filter(item => item.retestTime <= now)
dueItems(queue, t) == SelectSeq(queue, LAMBDA item : item.retestTime <= t)

\* a variant that leaves the due tasks in the queue
LeavesDueItems(queue, t) == queue

\* retestQueue.filter(item => item.retestTime > now)
laterItems(queue, t) == SelectSeq(queue, LAMBDA item : item.retestTime > t)

\* the tick of the retest cron job: the due tasks leave the queue and the
\* probe of the first one starts
RetestTick ==
    /\ Len(drains) < MaxDrains
    /\ LET itemsToRetest == dueItems(retestQueue, now)
       IN  IF Len(itemsToRetest) = 0
           THEN UNCHANGED <<retestQueue, drains>>
           ELSE /\ retestQueue' = laterItems(retestQueue, now)
                /\ drains' = Append(drains, itemsToRetest)
    /\ lastOp' = Op("engine")
    /\ UNCHANGED <<now, csv, servers, isChecking, scanBatch, scanRest, allPendingAlerts,
                   outbox, sweep, sweeping, checks, alerts, notifCount, lastNotifAt,
                   streak, apiBudget, fnArg, fnRes, cron, scans, cycle>>

\* the probe of the first item of drain d returns and the result is processed
\* with the failure count the task carries; the pending alerts are dropped
RetestEvalWith(d, checkResult, pick) ==
    /\ d \in 1..Len(drains)
    /\ LET item == Head(drains[d])
           res == processCheckResult(item.server, checkResult, item.currentFailures,
                                     pick, now)
           left == Tail(drains[d])
           drains2 == IF left = <<>>
                      THEN [k \in 1..Len(drains) - 1 |->
                              IF k < d THEN drains[k] ELSE drains[k + 1]]
                      ELSE [drains EXCEPT ![d] = left]
       IN  /\ Len(res.alerts) <= MaxAlerts
           /\ checks' = res.checks
           /\ retestQueue' = res.retestQueue
           /\ alerts' = res.alerts
           /\ notifCount' = Counted(res.alerts, <<>>)
           /\ lastNotifAt' = Stamped(res.alerts, <<>>, now)
           /\ drains' = drains2
           /\ History(item.server, checkResult, "retest")
    /\ UNCHANGED <<now, csv, servers, isChecking, scanBatch, scanRest, allPendingAlerts,
                   outbox, sweep, sweeping, apiBudget, fnArg, fnRes, cron, scans, cycle>>

RetestEval ==
    \E d \in 1..Len(drains) :
      \E checkResult \in ProbeResults(Head(drains[d]).server) :
        \E pick \in Picks(Head(drains[d]).server, checkResult) :
          RetestEvalWith(d, checkResult, pick)

(***************************************************************************)
(* processAlertQueue                                                       *)
(***************************************************************************)
SweepRun(activeAlerts, op) ==
    LET run == alertQueueLoop(activeAlerts, alerts, servers, now)
    IN  /\ alerts' = run.alerts
        /\ sweep' = run.rest
        /\ sweeping' = (run.sent # 0)
        /\ notifCount' = IF run.sent = 0 THEN notifCount
                         ELSE [notifCount EXCEPT ![run.sent] = @ + 1]
        /\ lastNotifAt' = IF run.sent = 0 THEN lastNotifAt
                          ELSE [lastNotifAt EXCEPT ![run.sent] = now]
        /\ lastOp' = [op |-> op, url |-> "", online |-> FALSE]
        /\ UNCHANGED <<now, csv, servers, isChecking, retestQueue, drains, scanBatch,
                       scanRest, allPendingAlerts, outbox, checks, streak, apiBudget, fnArg, fnRes, cron, scans, cycle>>

\* the tick of the alert cron job: the active alerts are read and the loop
\* runs up to its first await sendAlertEmail
SweepStart ==
    /\ ~sweeping
    /\ \E activeAlerts \in getActiveAlerts(alerts) : SweepRun(activeAlerts, "engine")

\* sendAlertEmail has returned: the loop goes on with the rest of the snapshot
SweepResume ==
    /\ sweeping
    /\ SweepRun(sweep, "engine")

(***************************************************************************)
(* api/alerts.js: the status updates                                       *)
(***************************************************************************)
\* GET /api/alerts/:id/status?action=...
ApiGetStatus ==
    \E id \in 1..Len(alerts) : \E action \in {"in_process", "abort", "done"} :
      /\ apiBudget > 0
      /\ getAlertById(alerts, id) # Null
      /\ apiBudget' = apiBudget - 1
      /\ alerts' = updateAlertStatus(alerts, id, action, now)
      /\ lastOp' = Op("api")
      /\ UNCHANGED <<now, csv, servers, isChecking, retestQueue, drains, scanBatch,
                     scanRest, allPendingAlerts, outbox, sweep, sweeping, checks,
                     notifCount, lastNotifAt, streak, fnArg, fnRes, cron, scans, cycle>>

\* POST /api/alerts/:id/status {status}
ApiPostStatus ==
    \E id \in 1..Len(alerts) : \E status \in {"new", "in_process", "abort", "done"} :
      /\ apiBudget > 0
      /\ getAlertById(alerts, id) # Null
      /\ apiBudget' = apiBudget - 1
      /\ alerts' = updateAlertStatus(alerts, id, status, now)
      /\ lastOp' = Op("api")
      /\ UNCHANGED <<now, csv, servers, isChecking, retestQueue, drains, scanBatch,
                     scanRest, allPendingAlerts, outbox, sweep, sweeping, checks,
                     notifCount, lastNotifAt, streak, fnArg, fnRes, cron, scans, cycle>>

(***************************************************************************)
(* sendWeeklyReportJob: reads the check store and the server list only     *)
(***************************************************************************)
WeeklyReport ==
    /\ lastOp' = Op("engine")
    /\ UNCHANGED <<now, csv, servers, isChecking, retestQueue, drains, scanBatch,
                   scanRest, allPendingAlerts, outbox, sweep, sweeping, checks, alerts,
                   notifCount, lastNotifAt, streak, apiBudget, fnArg, fnRes, cron, scans, cycle>>

Next ==
    \/ WeeklyReport
    \/ ScanSkipped
    \/ Tick
    \/ ScanStart
    \/ ScanEval
    \/ RetestTick
    \/ RetestEval
    \/ SweepStart
    \/ SweepResume
    \/ ApiGetStatus
    \/ ApiPostStatus

Spec == Init /\ [][Next]_vars

\* the same handlers with a second status update allowed, for one threshold
InitReopen == InitWith(<<ServerA(ReopenT)>>, MaxReopenCalls)

SpecReopen == InitReopen /\ [][Next]_vars

\* the engine on its own: no status update arrives
NextEngine ==
    \/ WeeklyReport
    \/ ScanSkipped
    \/ Tick
    \/ ScanStart
    \/ ScanEval
    \/ RetestTick
    \/ RetestEval
    \/ SweepStart
    \/ SweepResume

SpecEngine == Init /\ [][NextEngine]_vars

(***************************************************************************)
(* The scan and retest jobs over two endpoints, with the errors the code   *)
(* catches: a probe or an evaluation that throws, a dispatch that throws,  *)
(* an error in the body of checkAllServers.  The server list is empty or   *)
(* holds both endpoints, with a common failure threshold up to FleetMaxT.  *)
(***************************************************************************)
InitFleet ==
    /\ now = HourMs
    /\ \E file \in {<<>>} \cup {<<[ServerB EXCEPT !.failure_threshold = t],
                                    [ServerC EXCEPT !.failure_threshold = t]>> :
                                    t \in 1..FleetMaxT} : Idle(file, 0)
    /\ fnArg = Null
    /\ fnRes = Null
    /\ cron = NoCron
    /\ scans = 0

Failed(name, url) == [op |-> name, url |-> url, online |-> FALSE]

\* the probe of slot i returns and the dispatch of any of the groups (at most
\* one per server) may throw
FleetScanEval ==
    \E i \in 1..Len(scanBatch) :
      \E checkResult \in ProbeResults(scanBatch[i].server) :
        \E pick \in Picks(scanBatch[i].server, checkResult) :
          \E failing \in SUBSET (1..Min(MaxGroups, Len(servers))) :
            ScanEvalFull(i, checkResult, pick, failing)

\* checkServer or processCheckResult of slot i throws before anything is
\* stored: the callback catches the error and returns no pending alert
ScanThrow ==
    \E i \in 1..Len(scanBatch) : \E failing \in SUBSET (1..Min(MaxGroups, Len(servers))) :
      /\ isChecking
      /\ ~scanBatch[i].done
      /\ SlotDone(slotFailed(scanBatch, i), failing)
      /\ lastOp' = Failed("scan_error", scanBatch[i].server.url)
      /\ cycle' = Handled(i)
      /\ UNCHANGED <<now, csv, servers, retestQueue, drains, sweep, sweeping, checks,
                     alerts, notifCount, lastNotifAt, streak, apiBudget, fnArg,
                     fnRes, cron>>

\* an error thrown in the body of checkAllServers before the first batch:
\* catch (error) { ... } finally { isChecking = false; }
ScanBodyThrow ==
    /\ ~scanInProgress(isChecking)
    /\ isChecking' = releaseGuard(TRUE)
    /\ lastOp' = Failed("cycle_error", "")
    /\ UNCHANGED <<now, csv, servers, retestQueue, drains, scanBatch, scanRest,
                   allPendingAlerts, outbox, sweep, sweeping, checks, alerts,
                   notifCount, lastNotifAt, streak, apiBudget, fnArg, fnRes, cron, scans, cycle>>

\* the retest of the first item of drain d throws before anything is stored:
\* the loop catches the error and goes on with the next item
RetestThrow ==
    \E d \in 1..Len(drains) :
      /\ drains' = IF Tail(drains[d]) = <<>>
                   THEN [k \in 1..Len(drains) - 1 |->
                           IF k < d THEN drains[k] ELSE drains[k + 1]]
                   ELSE [drains EXCEPT ![d] = Tail(drains[d])]
      /\ lastOp' = Failed("retest_error", Head(drains[d]).server.url)
      /\ UNCHANGED <<now, csv, servers, isChecking, retestQueue, scanBatch, scanRest,
                     allPendingAlerts, outbox, sweep, sweeping, checks, alerts,
                     notifCount, lastNotifAt, streak, apiBudget, fnArg, fnRes, cron, scans, cycle>>

NextFleet ==
    \/ ScanSkipped
    \/ Tick
    \/ ScanStart
    \/ FleetScanEval
    \/ ScanThrow
    \/ ScanBodyThrow
    \/ RetestTick
    \/ RetestEval
    \/ RetestThrow

SpecFleet == InitFleet /\ [][NextFleet]_vars

(***************************************************************************)
(* The retest queue of two endpoints that every full scan finds offline;   *)
(* a retest may find them online or offline, or throw.                     *)
(***************************************************************************)
InitRetest == InitWith(<<[ServerB EXCEPT !.failure_threshold = MaxT], ServerC>>, 0)

DownScanEval ==
    \E i \in 1..Len(scanBatch) :
      \E checkResult \in DownResults(scanBatch[i].server) :
        \E pick \in Picks(scanBatch[i].server, checkResult) :
          ScanEvalWith(i, checkResult, pick)

NextRetest ==
    \/ Tick
    \/ ScanStart
    \/ DownScanEval
    \/ RetestTick
    \/ RetestEval
    \/ RetestThrow

SpecRetest == InitRetest /\ [][NextRetest]_vars

\* the same under the scheduling of the program: the clock advances, the
\* retest job fires every minute, every probe returns or times out
SpecRetestFair ==
    /\ SpecRetest
    /\ WF_vars(Tick)
    /\ WF_vars(RetestTick)
    /\ WF_vars(RetestEval \/ RetestThrow)

(***************************************************************************)
(* shouldSendAlert as a function: the calls with an alert row (or none)    *)
(* and a clock value around both throttle windows.                         *)
(***************************************************************************)
ThrottleStamps == {0, 1, HourMs}

ThrottleNows == {HourMs - 1, HourMs, HourMs + 1, DayMs - 1, DayMs, DayMs + 1,
                 DayMs + HourMs, DayMs + HourMs + 1}

ThrottleRows ==
    { [id |-> 1, server_url |-> UrlA, issue_type |-> "offline", status |-> st,
       created_at |-> 0, last_alerted_at |-> la, resolved_at |-> Null,
       alert_count |-> 1] : st \in Statuses, la \in ThrottleStamps }

InitThrottle ==
    /\ now \in ThrottleNows
    /\ fnArg \in {Null} \cup {Some(r) : r \in ThrottleRows}
    /\ fnRes = Null
    /\ cron = NoCron
    /\ scans = 0
    /\ Idle(<<>>, 0)

CallShouldSendAlert ==
    /\ fnRes = Null
    /\ fnRes' = Some(shouldSendAlert(fnArg, now))
    /\ UNCHANGED <<now, csv, servers, isChecking, retestQueue, drains, scanBatch,
                   scanRest, allPendingAlerts, outbox, sweep, sweeping, checks, alerts,
                   notifCount, lastNotifAt, streak, lastOp, apiBudget, fnArg, cron, scans, cycle>>

SpecThrottle == InitThrottle /\ [][CallShouldSendAlert]_vars

(***************************************************************************)
(* A full scan of a list longer than one batch: BatchSize rows of one      *)
(* endpoint followed by a row of another.  Every probe finds its endpoint  *)
(* online or throws.                                                       *)
(***************************************************************************)
LongList == [k \in 1..(BatchSize + 1) |-> IF k <= BatchSize THEN ServerB ELSE ServerC]

InitBatches == InitWith(LongList, 0)

UpResults(server) == {r \in ProbeResults(server) : r.is_online}

UpScanEval ==
    \E i \in 1..Len(scanBatch) :
      \E checkResult \in UpResults(scanBatch[i].server) :
        \E pick \in Picks(scanBatch[i].server, checkResult) :
          ScanEvalWith(i, checkResult, pick)

NextBatches ==
    \/ ScanStart
    \/ UpScanEval
    \/ ScanThrow

SpecBatches == InitBatches /\ [][NextBatches]_vars

(***************************************************************************)
(* sendCustomerGroupedAlerts as a function: the calls with the pending     *)
(* alerts a cycle may collect from five endpoints, two of them with the    *)
(* same customer and recipient, one without recipient, one without         *)
(* customer name.                                                          *)
(***************************************************************************)
GroupServers == {ServerA(1), ServerB, ServerC, ServerD, ServerE}

\* the entries processCheckResult pushes: a created alert, or a re-alerted one
PendingItems ==
    { [id |-> 1, issue_type |-> type, alert_count |-> IF new THEN 1 ELSE 2,
       server |-> server, isNew |-> new] :
        type \in {"offline", "slow_response"}, new \in BOOLEAN, server \in GroupServers }

PendingLists == UNION { [1..n -> PendingItems] : n \in 0..MaxPending }

InitGroup ==
    /\ now = 0
    /\ fnArg \in PendingLists
    /\ fnRes = Null
    /\ cron = NoCron
    /\ scans = 0
    /\ Idle(<<>>, 0)

CallSendCustomerGroupedAlerts ==
    /\ fnRes = Null
    /\ \E failing \in SUBSET (1..MaxGroups) :
         fnRes' = Some(sendCustomerGroupedAlerts(fnArg, failing))
    /\ UNCHANGED <<now, csv, servers, isChecking, retestQueue, drains, scanBatch,
                   scanRest, allPendingAlerts, outbox, sweep, sweeping, checks, alerts,
                   notifCount, lastNotifAt, streak, lastOp, apiBudget, fnArg, cron, scans, cycle>>

SpecGroup == InitGroup /\ [][CallSendCustomerGroupedAlerts]_vars

(***************************************************************************)
(* The engine under its cron schedule, for an endpoint whose every probe   *)
(* is offline.  The retest job fires at every minute boundary, the full    *)
(* scan at every fifth one; a probe started at a boundary returns ProbeMs  *)
(* later.  Date.now() is kept at LiveNow and the passing of d milliseconds *)
(* moves every stored instant back by d, so that elapsed times are exact   *)
(* up to LiveNow.  The schedule is followed until the failure is           *)
(* escalated.                                                              *)
(***************************************************************************)
LiveNow == HourMs

Back(x, d) == Max(x - d, 0)

Elapsed(d) ==
    /\ retestQueue' = [k \in 1..Len(retestQueue) |->
                         [retestQueue[k] EXCEPT !.retestTime = Back(@, d)]]
    /\ alerts' = [k \in 1..Len(alerts) |->
                    [alerts[k] EXCEPT !.created_at = Back(@, d),
                                      !.last_alerted_at = Back(@, d),
                                      !.resolved_at = IF @ = Null THEN Null
                                                      ELSE Some(Back(@[1], d))]]
    /\ lastNotifAt' = [k \in 1..Len(lastNotifAt) |-> Back(lastNotifAt[k], d)]

DueTasks == {k \in 1..Len(retestQueue) : retestQueue[k].retestTime <= now}

InitLive ==
    /\ now = LiveNow
    /\ \E t \in 1..LiveMaxT : Idle(<<ServerA(t)>>, 0)
    /\ fnArg = Null
    /\ fnRes = Null
    /\ cron \in {[minute |-> m, probed |-> FALSE] : m \in 0..(ScanEveryMin - 1)}
    /\ scans = 0

\* the clock reaches the next minute boundary; the work started at the last
\* one is over (a probe times out after 15 s)
LiveMinute ==
    /\ cron.probed
    /\ ~isChecking
    /\ drains = <<>>
    /\ alerts = <<>>
    /\ Elapsed(MinuteMs - ProbeMs)
    /\ cron' = [minute |-> (cron.minute + 1) % ScanEveryMin, probed |-> FALSE]
    /\ lastOp' = Op("engine")
    /\ UNCHANGED <<now, csv, servers, isChecking, drains, scanBatch, scanRest,
                   allPendingAlerts, outbox, sweep, sweeping, checks, notifCount,
                   streak, apiBudget, fnArg, fnRes, scans, cycle>>

\* the jobs of this boundary have fired and their probes return
LiveProbed ==
    /\ ~cron.probed
    /\ DueTasks = {}
    /\ cron.minute = 0 => isChecking
    /\ Elapsed(ProbeMs)
    /\ cron' = [cron EXCEPT !.probed = TRUE]
    /\ lastOp' = Op("engine")
    /\ UNCHANGED <<now, csv, servers, isChecking, drains, scanBatch, scanRest,
                   allPendingAlerts, outbox, sweep, sweeping, checks, notifCount,
                   streak, apiBudget, fnArg, fnRes, scans, cycle>>

\* cron.schedule('*/5 * * * *', checkAllServers)
LiveScanStart == cron.minute = 0 /\ ~cron.probed /\ ScanStart

\* cron.schedule('* * * * *', processRetestQueue), when a task is due
LiveRetestTick == ~cron.probed /\ DueTasks # {} /\ RetestTick

LiveScanEval ==
    /\ cron.probed
    /\ \E i \in 1..Len(scanBatch) :
         \E checkResult \in DownResults(scanBatch[i].server) :
           \E pick \in Picks(scanBatch[i].server, checkResult) :
             ScanEvalWith(i, checkResult, pick)

LiveRetestEval ==
    /\ cron.probed
    /\ \E d \in 1..Len(drains) :
         \E checkResult \in DownResults(Head(drains[d]).server) :
           \E pick \in Picks(Head(drains[d]).server, checkResult) :
             RetestEvalWith(d, checkResult, pick)

NextLive ==
    \/ LiveMinute
    \/ LiveProbed
    \/ LiveScanStart
    \/ LiveRetestTick
    \/ LiveScanEval
    \/ LiveRetestEval

SpecLive ==
    /\ InitLive
    /\ [][NextLive]_vars
    /\ WF_vars(LiveMinute)
    /\ WF_vars(LiveProbed)
    /\ WF_vars(LiveScanStart)
    /\ WF_vars(LiveRetestTick)
    /\ WF_vars(LiveScanEval)
    /\ WF_vars(LiveRetestEval)

(***************************************************************************)
(* Vocabulary of the properties.                                           *)
(***************************************************************************)
\* the failure threshold of the endpoint with this URL
ThresholdOf(url) ==
    LET k == CHOOSE k \in 1..Len(csv) : csv[k].url = url
    IN  failureThreshold(csv[k])

AlertsOf(al, url, type) ==
    {i \in 1..Len(al) : al[i].server_url = url /\ al[i].issue_type = type}

OpenAlertsOf(al, url, type) ==
    {i \in AlertsOf(al, url, type) : al[i].status \in OpenStatuses}

ClosedAlertsOf(al, url, type) ==
    {i \in AlertsOf(al, url, type) : al[i].status \in {"done", "abort"}}

\* the step processed a result of the endpoint (full scan or retest)
EvalStep(url) == lastOp'.op \in {"scan", "retest"} /\ lastOp'.url = url

OfflineEvalStep(url) == EvalStep(url) /\ ~lastOp'.online

\* no retest task of the endpoint, queued or in flight, carries a failure
\* count above the number of offline results processed in a row
CountsWithinStreak(url) ==
    /\ \A k \in TasksFor(retestQueue, url) :
         retestQueue[k].currentFailures <= streak[url]
    /\ \A p \in InFlightFor(drains, url) :
         drains[p[1]][p[2]].currentFailures <= streak[url]

\* notifications issued for alert i before the step (0 for a row it creates)
NotifiedBefore(i) == IF i <= Len(notifCount) THEN notifCount[i] ELSE 0

(***************************************************************************)
(* C1.  In every reachable state, each (endpoint URL, issue type) pair has *)
(* at most one alert whose status is new or in_process, whatever the       *)
(* sequence of scan evaluations, retest evaluations, sweeps and status     *)
(* updates through the API.                                                *)
(***************************************************************************)
OneOpenAlertPerPair ==
    \A u \in Urls : \A type \in IssueTypes :
      Cardinality(OpenAlertsOf(alerts, u, type)) <= 1

(***************************************************************************)
(* C2.  Starting with no failure count on record and no open offline       *)
(* alert, an offline result that is the K-th in a row with K below the     *)
(* threshold T creates no offline alert and schedules a retest that        *)
(* supersedes the previous one: the queue then holds exactly one task for  *)
(* the endpoint, due one retest delay later, and no task carries a count   *)
(* above K.                                                                *)
(***************************************************************************)
ToleratedFailureSchedulesOneRetest ==
    [][\A u \in Urls :
         ( /\ OfflineEvalStep(u)
           /\ CountsWithinStreak(u)
           /\ OpenAlertsOf(alerts, u, "offline") = {}
           /\ streak'[u] < ThresholdOf(u) )
         => ( /\ AlertsOf(alerts', u, "offline") = AlertsOf(alerts, u, "offline")
              /\ OpenAlertsOf(alerts', u, "offline") = {}
              /\ Cardinality(TasksFor(retestQueue', u)) = 1
              /\ retestQueue'[Len(retestQueue')].server.url = u
              /\ retestQueue'[Len(retestQueue')].retestTime = now + RetestDelayMs
              /\ CountsWithinStreak(u)' )]_vars

\* the second offline result in a row under threshold 3 has been processed
SecondFailureTolerated ==
    \E u \in Urls :
      /\ lastOp.op \in {"scan", "retest"} /\ lastOp.url = u /\ ~lastOp.online
      /\ ThresholdOf(u) = 3
      /\ streak[u] = 2
      /\ CountsWithinStreak(u)
      /\ AlertsOf(alerts, u, "offline") = {}
      /\ Cardinality(TasksFor(retestQueue, u)) = 1

(***************************************************************************)
(* C3.  With no open offline alert, processing the T-th offline result in  *)
(* a row (from a full scan or from a retest) escalates: the most recent    *)
(* check row stores the count T and an offline alert with status new and   *)
(* alert count 1 is created.                                               *)
(***************************************************************************)
ThresholdResultEscalates ==
    [][\A u \in Urls :
         ( /\ OfflineEvalStep(u)
           /\ OpenAlertsOf(alerts, u, "offline") = {}
           /\ streak'[u] = ThresholdOf(u) )
         => ( /\ checks'[u] # Null
              /\ checks'[u][1].consecutive_failures = ThresholdOf(u)
              /\ \E i \in AlertsOf(alerts', u, "offline") :
                   /\ i > Len(alerts)
                   /\ alerts'[i].status = "new"
                   /\ alerts'[i].alert_count = 1 )]_vars

(***************************************************************************)
(* C4.  A result evaluation creates or re-notifies an offline alert of an  *)
(* endpoint only when the most recent T processed results of the endpoint  *)
(* were all offline.                                                       *)
(***************************************************************************)
OfflineAlertOnlyAfterFullRun ==
    [][\A u \in Urls :
         ( /\ EvalStep(u)
           /\ \E i \in AlertsOf(alerts', u, "offline") :
                \/ i > Len(alerts)
                \/ alerts'[i].alert_count > alerts[i].alert_count )
         => streak'[u] >= ThresholdOf(u)]_vars

(***************************************************************************)
(* C5.  An endpoint whose every probe is offline is eventually escalated   *)
(* (an offline alert is created for it), whatever its failure threshold,   *)
(* when the retest job and the full scan keep firing.                      *)
(***************************************************************************)
OfflineEndpointEscalated ==
    <>(\E u \in Urls : AlertsOf(alerts, u, "offline") # {})

(***************************************************************************)
(* C6.  shouldSendAlert follows the throttle law: true when there is no    *)
(* alert; for status new, true exactly when at least one hour has passed   *)
(* since last_alerted_at; for in_process, exactly when at least 24 hours   *)
(* have passed; false for done and abort.                                  *)
(***************************************************************************)
ThrottleLaw ==
    fnRes # Null =>
      fnRes[1] = IF fnArg = Null THEN TRUE
                 ELSE LET d == now - fnArg[1].last_alerted_at
                      IN  CASE fnArg[1].status = "new" -> d >= 60 * 60 * 1000
                            [] fnArg[1].status = "in_process" -> d >= 24 * 60 * 60 * 1000
                            [] OTHER -> FALSE

\* the call for a new alert last notified exactly one hour ago returned true
ThrottleOpensAtOneHour ==
    /\ fnRes = Some(TRUE)
    /\ fnArg # Null
    /\ fnArg[1].status = "new"
    /\ now - fnArg[1].last_alerted_at = HourMs

(***************************************************************************)
(* C7.  Two successive notifications of an alert are at least one hour     *)
(* apart when the later one is issued while the stored status is new, and  *)
(* at least 24 hours apart while it is in_process, under every             *)
(* interleaving of the full scan, the retest drain and the sweep.          *)
(***************************************************************************)
NotificationsRespectWindow ==
    [][\A i \in 1..Len(alerts) :
         (notifCount[i] >= 1 /\ notifCount'[i] > notifCount[i])
         => ( /\ alerts[i].status = "new" => now - lastNotifAt[i] >= HourMs
              /\ alerts[i].status = "in_process" => now - lastNotifAt[i] >= DayMs )]_vars

(***************************************************************************)
(* C8.  While the stored status of an alert is done or abort, no step      *)
(* notifies for it or changes its last_alerted_at or alert_count.          *)
(***************************************************************************)
ClosedAlertUntouched ==
    [][\A i \in 1..Len(alerts) :
         alerts[i].status \in {"done", "abort"}
         => ( /\ notifCount'[i] = notifCount[i]
              /\ alerts'[i].last_alerted_at = alerts[i].last_alerted_at
              /\ alerts'[i].alert_count = alerts[i].alert_count )]_vars

(***************************************************************************)
(* C9.  Once an alert of an (endpoint, issue type) pair is marked done or  *)
(* abort, no step issues a notification for that issue on that endpoint.   *)
(***************************************************************************)
NoNotificationAfterClose ==
    [][\A u \in Urls : \A type \in IssueTypes :
         ClosedAlertsOf(alerts, u, type) # {}
         => \A i \in AlertsOf(alerts', u, type) :
              notifCount'[i] = NotifiedBefore(i)]_vars

(***************************************************************************)
(* C10.  A step of the engine (full scan, retest, sweep, weekly report)    *)
(* leaves the status and resolved_at of every existing alert unchanged     *)
(* and deletes no alert; a row it adds has status new and no resolved_at.  *)
(***************************************************************************)
EngineKeepsStatus ==
    [][lastOp'.op # "api"
         => ( /\ Len(alerts') >= Len(alerts)
              /\ \A i \in 1..Len(alerts) :
                   /\ alerts'[i].status = alerts[i].status
                   /\ alerts'[i].resolved_at = alerts[i].resolved_at
              /\ \A i \in (Len(alerts) + 1)..Len(alerts') :
                   /\ alerts'[i].status = "new"
                   /\ alerts'[i].resolved_at = Null )]_vars

\* a full scan has processed an online result of an endpoint whose offline
\* alert is still open
RecoveredWithOpenAlert ==
    /\ lastOp.op = "scan"
    /\ lastOp.online
    /\ OpenAlertsOf(alerts, lastOp.url, "offline") # {}

(***************************************************************************)
(* C11.  After an online result of an endpoint is processed, by a full     *)
(* scan or by a retest, the most recent check row of the endpoint stores   *)
(* the consecutive-failure count 0, whatever was stored before.            *)
(***************************************************************************)
OnlineResultResetsCount ==
    [][\A u \in Urls :
         (EvalStep(u) /\ lastOp'.online)
         => ( /\ checks'[u] # Null
              /\ checks'[u][1].is_online = 1
              /\ checks'[u][1].consecutive_failures = 0 )]_vars

\* a retest, whose task carried a failure count, found the endpoint online
RetestFoundOnline ==
    /\ lastOp.op = "retest"
    /\ lastOp.online
    /\ checks[lastOp.url] # Null
    /\ checks[lastOp.url][1].consecutive_failures = 0

(***************************************************************************)
(* C12.  At most one full scan is in flight at any time, whatever the      *)
(* interleaving of the triggers (5-minute timer, start-up timer, manual    *)
(* check-all); a trigger that arrives while a scan is in flight changes    *)
(* nothing: it starts no probe and leaves nothing behind that would start  *)
(* a scan later.                                                           *)
(***************************************************************************)
OneScanInFlight ==
    /\ [](scans <= 1)
    /\ [][lastOp'.op = "skipped"
          => /\ isChecking
             /\ UNCHANGED <<now, csv, servers, isChecking, retestQueue, drains,
                            scanBatch, scanRest, allPendingAlerts, outbox, sweep,
                            sweeping, checks, alerts, notifCount, lastNotifAt,
                            streak, apiBudget, fnArg, fnRes, cron, scans, cycle>>]_vars

\* a trigger has just been turned away while a probe of the scan is pending
TriggerDuringScan ==
    /\ lastOp.op = "skipped"
    /\ isChecking
    /\ scans = 1
    /\ \E i \in 1..Len(scanBatch) : ~scanBatch[i].done

(***************************************************************************)
(* C13.  For every endpoint, a retest probe-and-evaluation and a full-scan *)
(* probe-and-evaluation of that endpoint are never in progress at the same *)
(* time.                                                                   *)
(***************************************************************************)
\* the endpoints a full scan is probing
ScanProbing == {scanBatch[i].server.url : i \in {k \in 1..Len(scanBatch) : ~scanBatch[k].done}}

\* the endpoints a retest drain is probing (the first item of each drain)
RetestProbing == {Head(drains[d]).server.url : d \in 1..Len(drains)}

RetestAndScanSerialized == ScanProbing \cap RetestProbing = {}

(***************************************************************************)
(* C14.  The retest queue holds at most one task per endpoint URL in every *)
(* reachable state; processing a result of an endpoint, which may schedule *)
(* a retest for it, leaves the tasks of the other endpoints as they were.  *)
(***************************************************************************)
\* the tasks of the queue that belong to other endpoints, in queue order
OtherTasks(queue, url) == SelectSeq(queue, LAMBDA item : item.server.url # url)

OneTaskPerEndpoint ==
    /\ [](\A u \in Urls : Cardinality(TasksFor(retestQueue, u)) <= 1)
    /\ [][\A u \in Urls :
            EvalStep(u) => OtherTasks(retestQueue', u) = OtherTasks(retestQueue, u)]_vars

\* a second tolerated failure of one endpoint has replaced its task while a
\* task of another endpoint is queued
TaskReplacedBesideAnother ==
    \E u, v \in Urls :
      /\ u # v
      /\ lastOp.op \in {"scan", "retest"} /\ lastOp.url = u /\ ~lastOp.online
      /\ \E k \in TasksFor(retestQueue, u) : retestQueue[k].currentFailures = 2
      /\ TasksFor(retestQueue, v) # {}

(***************************************************************************)
(* C15.  Every retest task that is not superseded is executed exactly      *)
(* once.  A tick of the retest job moves exactly the due tasks out of the  *)
(* queue, in order, and leaves the others queued; a task leaves the queue  *)
(* only that way or when a new task of its endpoint replaces it; every     *)
(* task taken by a tick is probed by one step, which removes it and        *)
(* nothing else from the work in flight, whether the probe returns or      *)
(* throws and whether or not another drain is in flight.  Under fair       *)
(* ticking the retest job always catches up: again and again no task due   *)
(* within the horizon of the clock is queued and no task is in flight.     *)
(***************************************************************************)
\* the last instant of the clock
Horizon == CHOOSE t \in Instants : \A x \in Instants : x <= t

\* the drains after the first item of drain d has been handled
WithoutHead(ds, d) ==
    IF Tail(ds[d]) = <<>>
    THEN [k \in 1..Len(ds) - 1 |-> IF k < d THEN ds[k] ELSE ds[k + 1]]
    ELSE [ds EXCEPT ![d] = Tail(ds[d])]

\* a task of the endpoint is queued and falls due before the clock stops
DueInTime(url) ==
    \E k \in TasksFor(retestQueue, url) : retestQueue[k].retestTime <= Horizon

RetestTasksRunOnce ==
    /\ [][Len(drains') > Len(drains)
          => /\ dueItems(retestQueue, now) # <<>>
             /\ drains' = Append(drains, dueItems(retestQueue, now))
             /\ retestQueue' = laterItems(retestQueue, now)]_vars
    /\ [][\A k \in 1..Len(retestQueue) :
            \/ \E j \in 1..Len(retestQueue') : retestQueue'[j] = retestQueue[k]
            \/ Len(drains') > Len(drains) /\ retestQueue[k].retestTime <= now
            \/ /\ OfflineEvalStep(retestQueue[k].server.url)
               /\ \E j \in TasksFor(retestQueue', retestQueue[k].server.url) :
                    retestQueue'[j].retestTime = now + RetestDelayMs]_vars
    /\ [][(drains' # drains /\ Len(drains') <= Len(drains))
          => \E d \in 1..Len(drains) :
               /\ drains' = WithoutHead(drains, d)
               /\ lastOp'.op \in {"retest", "retest_error"}
               /\ lastOp'.url = Head(drains[d]).server.url]_vars
    /\ []<>(drains = <<>> /\ \A u \in Urls : ~DueInTime(u))

\* the retest of one task has thrown while the task of the other endpoint,
\* taken by the same or by an overlapping drain, is still to be probed
RetestThrewBesideAnother ==
    /\ lastOp.op = "retest_error"
    /\ drains # <<>>
    /\ \A d \in 1..Len(drains) : Head(drains[d]).server.url # lastOp.url

\* two drains of the retest queue are in flight
DrainsOverlap == Len(drains) = 2 /\ RetestThrewBesideAnother

(***************************************************************************)
(* C16.  At the end of a cycle exactly one notification is dispatched to   *)
(* the notifier per distinct (customer, recipient) pair among the pending  *)
(* alerts, and it contains every (endpoint, issue) entry of the pair, each *)
(* tagged new or repeat.  (Stated for the cycles in which no dispatch      *)
(* throws.)                                                                *)
(***************************************************************************)
\* the customer name a pending alert is grouped under
CustomerOf(item) == IF item.server.customer = "" THEN "Unknown" ELSE item.server.customer

\* the (customer, recipient) pairs of the pending alerts that have a recipient
PairsOf(items) ==
    { <<CustomerOf(items[k]), items[k].server.alert_email>> :
        k \in {j \in 1..Len(items) : items[j].server.alert_email # ""} }

\* the entries of a pair, in the order of the pending alerts
EntriesOf(items, pair) ==
    LET mine == SelectSeq(items, LAMBDA item :
                    /\ item.server.alert_email = pair[2]
                    /\ CustomerOf(item) = pair[1])
    IN  [k \in 1..Len(mine) |->
           [url |-> mine[k].server.url, issue_type |-> mine[k].issue_type,
            alert_count |-> mine[k].alert_count, isNew |-> mine[k].isNew]]

NoneFailed(res) == \A k \in 1..Len(res.attempted) : ~res.attempted[k].failed

OneNotificationPerPair ==
    (fnRes # Null /\ NoneFailed(fnRes[1]))
    => /\ Len(fnRes[1].mailed) = Cardinality(PairsOf(fnArg))
       /\ \A pair \in PairsOf(fnArg) :
            \E k \in 1..Len(fnRes[1].mailed) :
              /\ fnRes[1].mailed[k].customer = pair[1]
              /\ fnRes[1].mailed[k].to = pair[2]
              /\ fnRes[1].mailed[k].entries = EntriesOf(fnArg, pair)

(***************************************************************************)
(* C17.  A pending alert whose endpoint has no recipient address is in no  *)
(* group and in no dispatched notification, and leaving it out does not    *)
(* change the groups built for the other alerts.                           *)
(***************************************************************************)
HasRecipient(items) == SelectSeq(items, LAMBDA item : item.server.alert_email # "")

NoRecipientUrls(items) ==
    {items[k].server.url : k \in {j \in 1..Len(items) : items[j].server.alert_email = ""}}

\* the groups handed to sendCustomerGroupAlert, without the outcome
GroupsOf(attempted) ==
    [k \in 1..Len(attempted) |->
       [customer |-> attempted[k].customer, email |-> attempted[k].email,
        servers |-> attempted[k].servers]]

NoRecipientNoGroup ==
    fnRes # Null
    => /\ \A k \in 1..Len(fnRes[1].attempted) :
            /\ fnRes[1].attempted[k].email # ""
            /\ \A j \in 1..Len(fnRes[1].attempted[k].servers) :
                 fnRes[1].attempted[k].servers[j].url \notin NoRecipientUrls(fnArg)
       /\ \A k \in 1..Len(fnRes[1].mailed) :
            /\ fnRes[1].mailed[k].to # ""
            /\ \A j \in 1..Len(fnRes[1].mailed[k].entries) :
                 fnRes[1].mailed[k].entries[j].url \notin NoRecipientUrls(fnArg)
       /\ Len(fnRes[1].attempted) = Cardinality(PairsOf(fnArg))
       /\ \A k \in 1..Len(fnRes[1].attempted) :
            fnRes[1].attempted[k].servers
              = EntriesOf(fnArg, <<fnRes[1].attempted[k].customer,
                                   fnRes[1].attempted[k].email>>)
       /\ GroupsOf(fnRes[1].attempted) = groupAlerts(HasRecipient(fnArg), <<>>)

\* the pending alerts held one without recipient between two with recipient
RecipientMissingInTheMiddle ==
    /\ fnRes # Null
    /\ Len(fnArg) = 3
    /\ fnArg[1].server.alert_email # ""
    /\ fnArg[2].server.alert_email = ""
    /\ fnArg[3].server.alert_email # ""
    /\ Len(fnRes[1].attempted) >= 1

(***************************************************************************)
(* C18.  When the dispatch of one group throws, the dispatch of every      *)
(* other group of the cycle is still attempted, the stored alerts keep the *)
(* state the cycle gave them, and the cycle ends normally.                 *)
(***************************************************************************)
\* the step ends a cycle that probed at least one endpoint
CycleEnds == isChecking /\ ~isChecking'

UrlsOf(pending) == {pending[k].server.url : k \in 1..Len(pending)}

\* the endpoints with a pending alert at the end of the cycle: those collected
\* before the step and the one whose alert the step hands on
CycleUrls ==
    UrlsOf(allPendingAlerts)
    \cup UNION {UrlsOf(scanBatch[k].pendingAlerts) : k \in 1..Len(scanBatch)}
    \cup (IF /\ lastOp'.op = "scan"
             /\ \E i \in 1..Len(notifCount') :
                  notifCount'[i] > (IF i <= Len(notifCount) THEN notifCount[i] ELSE 0)
          THEN {lastOp'.url} ELSE {})

GroupUrls(group) == {group.servers[j].url : j \in 1..Len(group.servers)}

\* the recipient of the alerts of an endpoint of the list
RecipientOf(url) ==
    LET k == CHOOSE k \in 1..Len(csv) : csv[k].url = url
    IN  <<csv[k].customer, csv[k].alert_email>>

DispatchSurvivesFailure ==
    [][CycleEnds
       => /\ \A u \in CycleUrls :
               \E k \in 1..Len(outbox') :
                 /\ u \in GroupUrls(outbox'[k])
                 /\ <<outbox'[k].customer, outbox'[k].email>> = RecipientOf(u)
          /\ \A k \in 1..Len(outbox') :
               /\ GroupUrls(outbox'[k]) \subseteq CycleUrls
               /\ \A j \in 1..Len(outbox') :
                    j # k => <<outbox'[j].customer, outbox'[j].email>>
                               # <<outbox'[k].customer, outbox'[k].email>>
               /\ \A j \in 1..Len(outbox'[k].servers) :
                    \E i \in 1..Len(alerts') :
                      /\ alerts'[i].server_url = outbox'[k].servers[j].url
                      /\ alerts'[i].issue_type = outbox'[k].servers[j].issue_type
                      /\ alerts'[i].alert_count >= outbox'[k].servers[j].alert_count
          /\ scanBatch' = <<>>
          /\ scans' = 0]_vars

\* a cycle has ended whose first dispatch threw and whose second went through
SecondGroupSentAfterFailure ==
    /\ ~isChecking
    /\ lastOp.op = "scan"
    /\ Len(outbox) = 2
    /\ outbox[1].failed
    /\ ~outbox[2].failed

(***************************************************************************)
(* C19.  When the probe or the evaluation of one endpoint throws, the      *)
(* other endpoints of the batch are still probed and evaluated and their   *)
(* pending alerts still reach the grouping; the same holds between the     *)
(* items of one drain of the retest queue.  The error itself changes no    *)
(* stored state.                                                           *)
(***************************************************************************)
ErrorsStayLocal ==
    /\ [][lastOp'.op = "scan_error"
          => /\ UNCHANGED <<checks, alerts, retestQueue, drains, notifCount>>
             /\ \E i \in 1..Len(scanBatch) :
                  /\ ~scanBatch[i].done
                  /\ scanBatch[i].server.url = lastOp'.url
                  /\ IF \E k \in 1..Len(scanBatch) : k # i /\ ~scanBatch[k].done
                     THEN /\ isChecking'
                          /\ scanBatch' = [scanBatch EXCEPT ![i].done = TRUE,
                                                            ![i].pendingAlerts = <<>>]
                          /\ UNCHANGED <<scanRest, allPendingAlerts>>
                     ELSE IF scanRest # <<>>
                     THEN /\ isChecking'
                          /\ scanBatch' = NewBatch(Take(scanRest, BatchSize))
                          /\ UrlsOf(allPendingAlerts') = CycleUrls
                     ELSE /\ ~isChecking'
                          /\ UNION {GroupUrls(outbox'[k]) : k \in 1..Len(outbox')}
                               = CycleUrls]_vars
    /\ [][lastOp'.op = "retest_error"
          => /\ UNCHANGED <<checks, alerts, retestQueue, scanBatch, scanRest,
                            allPendingAlerts, isChecking, outbox, notifCount>>
             /\ \E d \in 1..Len(drains) :
                  /\ Head(drains[d]).server.url = lastOp'.url
                  /\ drains' = WithoutHead(drains, d)]_vars

\* the probe of one endpoint threw last and the alert of the other endpoint
\* of the batch was grouped and handed on
OtherAlertGroupedAfterThrow ==
    /\ lastOp.op = "scan_error"
    /\ ~isChecking
    /\ \E k \in 1..Len(outbox) :
         /\ GroupUrls(outbox[k]) # {}
         /\ lastOp.url \notin GroupUrls(outbox[k])

(***************************************************************************)
(* C20.  The scan guard is always released: when a cycle ends, normally,   *)
(* on an empty server list or on a thrown error, isChecking is false       *)
(* afterwards, so that a trigger arriving once no cycle is in flight       *)
(* starts a new cycle; and a cycle in flight always has a probe            *)
(* outstanding, whose return the probe timeout guarantees.                 *)
(***************************************************************************)
GuardAlwaysReleased ==
    /\ [](scans = 0 => (~isChecking /\ ENABLED ScanStart))
    /\ [](isChecking => \E i \in 1..Len(scanBatch) : ~scanBatch[i].done)
    /\ [][((isChecking /\ scans' < scans) \/ lastOp'.op = "cycle_error")
          => ~isChecking']_vars

\* a cycle has just ended on an error thrown in the body of checkAllServers
CycleEndedByError ==
    /\ lastOp.op = "cycle_error"
    /\ ~isChecking
    /\ scans = 0

\* the probe of an endpoint of the first batch threw last and the second
\* batch has started
NextBatchAfterThrow ==
    /\ lastOp.op = "scan_error"
    /\ isChecking
    /\ Len(servers) > BatchSize
    /\ Len(scanBatch) = Len(servers) - BatchSize
    /\ \E i \in 1..Len(scanBatch) : ~scanBatch[i].done

(***************************************************************************)
(* C21.  Whenever a new alert is created, by the evaluation of a full scan *)
(* or of a retest, a notification for it, with count 1 and tagged new, is  *)
(* handed to the grouped dispatch in the same processing round.            *)
(***************************************************************************)
NewAlertIsHandedOn ==
    [][\A i \in 1..Len(alerts') :
         i > Len(alerts)
         => /\ alerts'[i].alert_count = 1
            /\ notifCount'[i] = 1]_vars

(***************************************************************************)
(* checker.js checkServer as a function of what the network answers.       *)
(*                                                                         *)
(* The primary request either completes with an HTTP status after some     *)
(* time or fails with an error code; every call of checkSSLCertificate     *)
(* either rejects (Null) or yields the days left on the certificate.       *)
(* SpecProbe draws these answers, the endpoint and the alert threshold,    *)
(* and applies checkServer followed by getServerStatus.                    *)
(***************************************************************************)
ProbeStatuses == {200, 302, 399, 400, 404, 499, 500, 503}
ProbeTimes == {120, SlowResponseMs, SlowResponseMs + 1}
CertCodes == {"CERT_HAS_EXPIRED"}
NamedSslCodes == {"UNABLE_TO_VERIFY_LEAF_SIGNATURE", "DEPTH_ZERO_SELF_SIGNED_CERT",
                  "SELF_SIGNED_CERT_IN_CHAIN"}
ErrorCodes == {"ECONNREFUSED", "ECONNABORTED", "CERT_HAS_EXPIRED",
               "DEPTH_ZERO_SELF_SIGNED_CERT"}
CertDays == {-1, 0, 1, DefaultSslAlertDays, DefaultSslAlertDays + 1}
AlertDayChoices == {-1, 1, DefaultSslAlertDays}

Completes(status, ms) == [kind |-> "status", status |-> status, ms |-> ms, code |-> ""]
Fails(code) == [kind |-> "fail", status |-> 0, ms |-> 0, code |-> code]

PrimaryOutcomes ==
    {Completes(st, ms) : st \in ProbeStatuses, ms \in ProbeTimes}
      \cup {Fails(c) : c \in ErrorCodes}

InspectionOutcomes == {Null} \cup {Some(d) : d \in CertDays}

Tri(b) == IF b THEN "true" ELSE "false"

validateStatus(status) == status < 500

\* axios.get: resolves on a status the validator accepts, otherwise rejects
\* with an error carrying the response; a failed request rejects with its
\* code and no response.
axiosGet(primary) ==
    IF primary.kind = "status"
    THEN IF validateStatus(primary.status)
         THEN [resolved |-> TRUE, status |-> primary.status, ms |-> primary.ms,
               code |-> "", response |-> Null, request |-> FALSE]
         ELSE [resolved |-> FALSE, status |-> primary.status, ms |-> primary.ms,
               code |-> "ERR_BAD_RESPONSE", response |-> Some(primary.status),
               request |-> TRUE]
    ELSE [resolved |-> FALSE, status |-> 0, ms |-> 0, code |-> primary.code,
          response |-> Null, request |-> TRUE]

\* The rejection of checkSSLCertificate: a plain Error, without a code.
InspectionError ==
    [resolved |-> FALSE, status |-> 0, ms |-> 0, code |-> "", response |-> Null,
     request |-> FALSE]

ValidOnLastDay(days) == [valid |-> days >= 0, days_remaining |-> days]

checkSSLCertificate(days) == [valid |-> days > 0, days_remaining |-> days]

isSSLError(code) == code # "" /\ (code \in CertCodes \/ code \in NamedSslCodes)

BlankResult(url) ==
    [server_url |-> url, is_online |-> FALSE, response_time |-> Null,
     ssl_valid |-> "null", ssl_days_remaining |-> Null, status_code |-> Null,
     error_message |-> Null]

WithSslInfo(result, sslInfo) ==
    [result EXCEPT !.ssl_valid = Tri(sslInfo.valid),
                   !.ssl_days_remaining = Some(sslInfo.days_remaining)]

errorMessage(error) ==
    IF error.response # Null THEN "HTTP error status"
    ELSE IF error.request THEN error.code \o ": request failed"
    ELSE "request not made"

\* The catch block: result is the object as the try block left it, error
\* what was thrown, inspection the answer to the one checkSSLCertificate
\* call the block may make.
checkServerCatch(result, error, inspection) ==
    IF IsHttps(result.server_url) /\ isSSLError(error.code)
    THEN IF inspection # Null
         THEN [WithSslInfo(result, checkSSLCertificate(inspection[1]))
                 EXCEPT !.is_online = TRUE, !.status_code = Some(200),
                        !.response_time = Some(0)]
         ELSE [result EXCEPT !.is_online = FALSE, !.ssl_valid = "false",
                             !.error_message = Some("Connection failed")]
    ELSE LET off == [result EXCEPT !.is_online = FALSE,
                                   !.error_message = Some(errorMessage(error))]
         IN  IF IsHttps(result.server_url)
             THEN IF inspection # Null
                  THEN WithSslInfo(off, checkSSLCertificate(inspection[1]))
                  ELSE [off EXCEPT !.ssl_valid = "false",
                                   !.error_message =
                                       Some(errorMessage(error) \o " | SSL")]
             ELSE off

AnyAnswerIsOnline(status) == status >= 200

\* line 50: the statuses of an answer that count as online
onlineStatus(status) == status >= 200 /\ status < 400

checkServer(url, primary, inspections) ==
    LET response == axiosGet(primary)
        answered == [BlankResult(url) EXCEPT
                        !.is_online = onlineStatus(response.status),
                        !.response_time = Some(response.ms),
                        !.status_code = Some(response.status)]
    IN  IF response.resolved
        THEN IF IsHttps(url)
             THEN IF inspections[1] # Null
                  THEN WithSslInfo(answered, checkSSLCertificate(inspections[1][1]))
                  ELSE checkServerCatch(answered, InspectionError, inspections[2])
             ELSE answered
        ELSE checkServerCatch(BlankResult(url), response, inspections[1])

ProbeArgs ==
    [url : {UrlA, UrlB}, primary : PrimaryOutcomes,
     inspections : InspectionOutcomes \X InspectionOutcomes,
     sslAlertDays : AlertDayChoices]

InitProbe ==
    /\ now = 0
    /\ fnArg \in ProbeArgs
    /\ fnRes = Null
    /\ cron = NoCron
    /\ scans = 0
    /\ Idle(<<>>, 0)

CallCheckServer ==
    /\ fnRes = Null
    /\ LET result == checkServer(fnArg.url, fnArg.primary, fnArg.inspections)
       IN  fnRes' = Some([result |-> result,
                          issues |-> getServerStatus(result, fnArg.sslAlertDays)])
    /\ UNCHANGED <<now, csv, servers, isChecking, retestQueue, drains, scanBatch,
                   scanRest, allPendingAlerts, outbox, sweep, sweeping, checks, alerts,
                   notifCount, lastNotifAt, streak, lastOp, apiBudget, fnArg, cron, scans, cycle>>

SpecProbe == InitProbe /\ [][CallCheckServer]_vars

IssuesOf(res) == {res.issues[k] : k \in 1..Len(res.issues)}

(***************************************************************************)
(* C22.  For every result checkServer returns and every threshold,         *)
(* getServerStatus derives exactly these issues: offline iff the result is *)
(* not online; for an https endpoint ssl_failed iff the certificate is     *)
(* invalid and otherwise ssl_expiring iff 0 < days remaining <= threshold; *)
(* slow_response iff the response time exceeds 5000 ms.  A result with 0   *)
(* or fewer days remaining never yields ssl_expiring.                      *)
(***************************************************************************)
StatusDerivesTheIssueSet ==
    fnRes # Null =>
      LET r == fnRes[1].result
          issues == IssuesOf(fnRes[1])
          days == r.ssl_days_remaining
      IN  /\ Len(fnRes[1].issues) = Cardinality(issues)
          /\ issues \subseteq IssueTypes
          /\ "offline" \in issues <=> ~r.is_online
          /\ "ssl_failed" \in issues
               <=> (IsHttps(fnArg.url) /\ r.ssl_valid = "false")
          /\ "ssl_expiring" \in issues
               <=> /\ IsHttps(fnArg.url)
                   /\ r.ssl_valid # "false"
                   /\ days # Null
                   /\ 0 < days[1]
                   /\ days[1] <= fnArg.sslAlertDays
          /\ "slow_response" \in issues
               <=> (r.response_time # Null /\ r.response_time[1] > SlowResponseMs)
          /\ (days # Null /\ days[1] <= 0) => "ssl_expiring" \notin issues

CertificateOnItsLastDay ==
    /\ fnRes # Null
    /\ IsHttps(fnArg.url)
    /\ fnRes[1].result.ssl_days_remaining = Some(0)
    /\ fnArg.sslAlertDays = DefaultSslAlertDays
    /\ "ssl_failed" \in IssuesOf(fnRes[1])

ProbeDone == fnRes # Null

\* The first certificate inspection of the call succeeded (it is made after
\* an accepted answer, or in the catch block after a failed request).
InspectedFine == IsHttps(fnArg.url) => fnArg.inspections[1] # Null

(***************************************************************************)
(* C23.  For a primary request that completes with HTTP status s (and, for *)
(* https, a successful certificate inspection) the result is online iff    *)
(* 200 <= s <= 399.                                                        *)
(***************************************************************************)
OnlineIffStatusBelow400 ==
    (ProbeDone /\ fnArg.primary.kind = "status" /\ InspectedFine)
      => (fnRes[1].result.is_online
            <=> (200 <= fnArg.primary.status /\ fnArg.primary.status <= 399))

LastRedirectStatusOnline ==
    /\ ProbeDone
    /\ IsHttps(fnArg.url)
    /\ fnArg.primary.kind = "status"
    /\ fnArg.primary.status = 399
    /\ InspectedFine
    /\ fnRes[1].result.is_online

(***************************************************************************)
(* C24.  A primary request answered with a 4xx or 5xx status yields an     *)
(* online result with the status code recorded (so that it neither counts  *)
(* as a failure nor schedules a retest).                                   *)
(***************************************************************************)
ErrorStatusStaysOnline ==
    (ProbeDone /\ fnArg.primary.kind = "status" /\ fnArg.primary.status >= 400
       /\ InspectedFine)
      => /\ fnRes[1].result.is_online
         /\ fnRes[1].result.status_code = Some(fnArg.primary.status)

(***************************************************************************)
(* C25.  For an https endpoint checkServer returns an offline result only  *)
(* when neither the content request nor the bare TLS handshake succeeded:  *)
(* if either of them succeeded the result is online.                       *)
(***************************************************************************)
ContentAnswered ==
    fnArg.primary.kind = "status" /\ onlineStatus(fnArg.primary.status)

HandshakeSucceeded ==
    \/ fnArg.inspections[1] # Null
    \/ ContentAnswered /\ fnArg.inspections[2] # Null

OfflineOnlyWhenNothingAnswered ==
    (ProbeDone /\ IsHttps(fnArg.url))
      => (fnRes[1].result.is_online <=> (ContentAnswered \/ HandshakeSucceeded))

(***************************************************************************)
(* C26.  When the primary https request is answered 2xx/3xx and the        *)
(* separate certificate inspection fails, the result is online with        *)
(* ssl_valid false and an error note, and keeps the response time and the  *)
(* status code.                                                            *)
(***************************************************************************)
FailedInspectionKeepsOnline ==
    (ProbeDone /\ IsHttps(fnArg.url) /\ ContentAnswered /\ fnArg.inspections[1] = Null)
      => /\ fnRes[1].result.is_online
         /\ fnRes[1].result.ssl_valid = "false"
         /\ fnRes[1].result.error_message # Null
         /\ fnRes[1].result.response_time = Some(fnArg.primary.ms)
         /\ fnRes[1].result.status_code = Some(fnArg.primary.status)

(***************************************************************************)
(* C27.  When the primary request fails with a TLS validation error and    *)
(* the certificate-only connection of the fallback succeeds, the result is *)
(* online with ssl_valid false, whatever the days remaining.               *)
(***************************************************************************)
TlsErrorFallbackMarksInvalid ==
    (ProbeDone /\ IsHttps(fnArg.url) /\ fnArg.primary.kind = "fail"
       /\ isSSLError(fnArg.primary.code) /\ fnArg.inspections[1] # Null)
      => /\ fnRes[1].result.is_online
         /\ fnRes[1].result.ssl_valid = "false"

ClosedStatuses == Statuses \ OpenStatuses

(***************************************************************************)
(* C28.  In every reachable state an alert's resolved_at is non-null iff   *)
(* its status is done or abort: creation leaves it null, and resolved_at   *)
(* changes only by a status update, which sets it to the time of the       *)
(* update when the new status is done or abort and clears it when the new  *)
(* status is new or in_process.                                            *)
(***************************************************************************)
ResolvedAtIffClosed ==
    /\ [](\A i \in 1..Len(alerts) :
            alerts[i].resolved_at # Null <=> alerts[i].status \in ClosedStatuses)
    /\ [][\A i \in 1..Len(alerts') :
            /\ i > Len(alerts) => alerts'[i].resolved_at = Null
            /\ (i <= Len(alerts) /\ alerts'[i].resolved_at # alerts[i].resolved_at)
                 => /\ apiBudget' < apiBudget
                    /\ alerts'[i].resolved_at =
                         IF alerts'[i].status \in ClosedStatuses
                         THEN Some(now) ELSE Null]_vars

ReopenedBesideItsSuccessor ==
    \E i, j \in 1..Len(alerts) :
      /\ i < j
      /\ alerts[i].server_url = alerts[j].server_url
      /\ alerts[i].issue_type = alerts[j].issue_type
      /\ alerts[i].status \in OpenStatuses
      /\ alerts[j].status \in OpenStatuses
      /\ alerts[i].resolved_at = Null

\* the slots of the batch whose probe or evaluation is still outstanding
OpenSlots == {k \in 1..Len(scanBatch) : ~scanBatch[k].done}

(***************************************************************************)
(* C29.  Within a full scan the batches run one after the other: the batch *)
(* in flight is a window of at most 10 consecutive rows starting at a      *)
(* multiple of 10, so at most 10 probes of the scan are in flight, and     *)
(* the next batch starts only in the step that completes the last          *)
(* outstanding probe and evaluation of the batch before it.                *)
(***************************************************************************)
BatchesRunInSequence ==
    /\ [](/\ Cardinality(OpenSlots) <= BatchSize
          /\ Len(scanBatch) <= BatchSize
          /\ isChecking =>
               /\ (Len(servers) - Len(scanRest) - Len(scanBatch)) % BatchSize = 0
               /\ [k \in 1..Len(scanBatch) |-> scanBatch[k].server] \o scanRest
                    = Drop(servers, Len(servers) - Len(scanRest) - Len(scanBatch)))
    /\ [][(isChecking /\ Len(scanRest') < Len(scanRest))
            => /\ Cardinality(OpenSlots) = 1
               /\ \A k \in 1..Len(scanBatch') : ~scanBatch'[k].done]_vars

SecondBatchInFlight ==
    /\ isChecking
    /\ Len(servers) = BatchSize + 1
    /\ scanRest = <<>>
    /\ Len(scanBatch) = 1
    /\ OpenSlots = {1}
    /\ lastOp.op = "scan"

(***************************************************************************)
(* C30.  alert_count and last_alerted_at of an alert change only when a    *)
(* notification for that alert is issued: a step that issues none for it   *)
(* (no recipient, failed dispatch, evaluation by a retest) keeps both.     *)
(***************************************************************************)
CountChangesOnlyWhenNotified ==
    [][\A i \in 1..Len(alerts) :
         (\/ alerts'[i].alert_count # alerts[i].alert_count
          \/ alerts'[i].last_alerted_at # alerts[i].last_alerted_at)
           => notifCount'[i] > notifCount[i]]_vars

(***************************************************************************)
(* C31.  When the result of a retest is offline, the new consecutive-      *)
(* failure count is the count carried by the retest task plus 1, whatever  *)
(* the check store holds for the endpoint: that count is stored, and it    *)
(* is the count of the task scheduled when it is below the threshold.      *)
(***************************************************************************)
RetestCountIsCarriedPlusOne ==
    [][(lastOp'.op = "retest" /\ ~lastOp'.online)
         => \E d \in 1..Len(drains) :
              LET item == Head(drains[d])
                  count == item.currentFailures + 1
              IN  /\ item.server.url = lastOp'.url
                  /\ drains' = WithoutHead(drains, d)
                  /\ checks'[item.server.url] # Null
                  /\ checks'[item.server.url][1].consecutive_failures = count
                  /\ count < failureThreshold(item.server)
                       => \E k \in TasksFor(retestQueue', item.server.url) :
                            retestQueue'[k].currentFailures = count]_vars

\* a retest counted on from its task while a scan had meanwhile stored the
\* count 1 and queued a task with it
RetestCountedPastStore ==
    /\ lastOp.op = "retest"
    /\ ~lastOp.online
    /\ checks[lastOp.url] # Null
    /\ checks[lastOp.url][1].consecutive_failures = 3
    /\ \E k \in TasksFor(retestQueue, lastOp.url) : retestQueue[k].currentFailures = 1

(***************************************************************************)
(* The check store over a month.                                           *)
(*                                                                         *)
(* SpecCleanup keeps every row of server_checks of one endpoint with its   *)
(* checked_at, under a clock that passes the retention period.  Its        *)
(* actions are the jobs startScheduler registers and the API handlers,     *)
(* reduced to what they do to the check store: the scan and the retest     *)
(* insert a row and set its failure count, the others leave the table      *)
(* alone.  cleanOldChecks is the function database.js exports.  In this    *)
(* specification Date.now() counts whole days (24 * 60 * 60 * 1000 ms).    *)
(***************************************************************************)
RetentionDays == 30
MaxRows == 2
CleanupInstants == {0, 1, RetentionDays, RetentionDays + 1}

\* INSERT INTO server_checks (..., checked_at, is_online, ...)
insertCheck(rows, checkData, t) ==
    [rows EXCEPT ![checkData.server_url] =
        Append(@, [checked_at |-> t,
                   is_online |-> IF checkData.is_online THEN 1 ELSE 0,
                   consecutive_failures |-> 0])]

\* SELECT ... ORDER BY checked_at DESC LIMIT 1 (the rows are kept in the
\* order of their insertion)
lastRowOf(rows, serverUrl) ==
    IF rows[serverUrl] = <<>> THEN Null
    ELSE Some(rows[serverUrl][Len(rows[serverUrl])])

\* UPDATE server_checks SET consecutive_failures = ? WHERE id = (latest row)
setLastCount(rows, serverUrl, consecutiveFailures) ==
    IF rows[serverUrl] = <<>> THEN rows
    ELSE [rows EXCEPT ![serverUrl][Len(rows[serverUrl])].consecutive_failures =
                          consecutiveFailures]

\* DELETE FROM server_checks WHERE checked_at < cutoffTime
cleanOldChecks(rows, daysToKeep, t) ==
    [u \in DOMAIN rows |->
        SelectSeq(rows[u], LAMBDA row : ~(row.checked_at < t - daysToKeep))]

InitCleanup == InitWith(<<ServerB>>, 0)

CleanupTick ==
    /\ \E t \in CleanupInstants : t > now /\ now' = t
    /\ lastOp' = Op("engine")
    /\ UNCHANGED <<csv, servers, isChecking, retestQueue, drains, scanBatch, scanRest,
                   allPendingAlerts, outbox, sweep, sweeping, checks, alerts,
                   notifCount, lastNotifAt, streak, apiBudget, fnArg, fnRes, cron, scans, cycle>>

\* processCheckResult, called by a scan (previousFailures 0) or by a retest:
\* what it does to the check store
CheckRecorded ==
    \E k \in 1..Len(servers) : \E checkResult \in ProbeResults(servers[k]) :
      \E previousFailures \in 0..1 :
        LET url == servers[k].url
            rows1 == insertCheck(checks, checkResult, now)
            count == consecutiveFailuresOf(checkResult, lastRowOf(rows1, url),
                                           previousFailures)
        IN  /\ Len(checks[url]) < MaxRows
            /\ checks' = setLastCount(rows1, url, count)
            /\ lastOp' = [op |-> IF previousFailures = 0 THEN "scan" ELSE "retest",
                          url |-> url, online |-> checkResult.is_online]
            /\ UNCHANGED <<now, csv, servers, isChecking, retestQueue, drains, scanBatch,
                           scanRest, allPendingAlerts, outbox, sweep, sweeping, alerts,
                           notifCount, lastNotifAt, streak, apiBudget, fnArg, fnRes,
                           cron, scans, cycle>>

\* processAlertQueue, sendWeeklyReportJob and the API handlers: they read
\* the check store or work on other tables
StoreLeftAlone ==
    \E name \in {"sweep", "report", "api"} :
      /\ lastOp' = Op(name)
      /\ UNCHANGED <<now, csv, servers, isChecking, retestQueue, drains, scanBatch,
                     scanRest, allPendingAlerts, outbox, sweep, sweeping, checks, alerts,
                     notifCount, lastNotifAt, streak, apiBudget, fnArg, fnRes, cron,
                     scans, cycle>>

NextCleanup ==
    \/ CleanupTick
    \/ CheckRecorded
    \/ StoreLeftAlone

\* the clock goes on and every cron job keeps firing
SpecCleanup ==
    /\ InitCleanup
    /\ [][NextCleanup]_vars
    /\ WF_vars(CleanupTick)
    /\ WF_vars(CheckRecorded)
    /\ WF_vars(StoreLeftAlone)

\* the check store holds no row that cleanOldChecks would delete now
NothingToClean == cleanOldChecks(checks, RetentionDays, now) = checks

(***************************************************************************)
(* C32.  While the monitor keeps running, the check rows older than 30     *)
(* days are eventually removed: again and again the check store holds no   *)
(* row that the cleanup would delete.                                      *)
(***************************************************************************)
OldChecksEventuallyRemoved == []<>NothingToClean

(***************************************************************************)
(* api/alerts.js: the two status-update handlers as functions of the       *)
(* request and the alerts table.  SpecApi draws a table, the method, the   *)
(* id and the value of the request (an empty value stands for a missing    *)
(* one) and applies the handler.                                           *)
(***************************************************************************)
GetActions == {"in_process", "abort", "done"}
PostStatuses == {"new", "in_process", "abort", "done"}
RequestValues == Statuses \cup {"", "resolved"}
MaxRequestId == 3

ApiRow(id, status, t) ==
    [id |-> id, server_url |-> UrlA,
     issue_type |-> IF id = 1 THEN "offline" ELSE "ssl_failed", status |-> status,
     created_at |-> 0, last_alerted_at |-> 0,
     resolved_at |-> IF status \in {"done", "abort"} THEN Some(t) ELSE Null,
     alert_count |-> 1]

ApiTables ==
    {<<>>} \cup {<<ApiRow(1, st, 0)>> : st \in Statuses}
           \cup {<<ApiRow(1, st1, 0), ApiRow(2, st2, 0)>> : st1, st2 \in Statuses}

\* GET /api/alerts/:id/status?action=...
getStatusHandler(al, id, action, t) ==
    IF action = "" \/ action \notin GetActions THEN [code |-> 400, alerts |-> al]
    ELSE IF getAlertById(al, id) = Null THEN [code |-> 404, alerts |-> al]
    ELSE [code |-> 200, alerts |-> updateAlertStatus(al, id, action, t)]

\* POST /api/alerts/:id/status {status}
postStatusHandler(al, id, status, t) ==
    IF status = "" \/ status \notin PostStatuses THEN [code |-> 400, alerts |-> al]
    ELSE IF getAlertById(al, id) = Null THEN [code |-> 404, alerts |-> al]
    ELSE [code |-> 200, alerts |-> updateAlertStatus(al, id, status, t)]

ApiRequests ==
    [method : {"GET", "POST"}, id : 1..MaxRequestId, value : RequestValues]

InitApi ==
    /\ now = HourMs
    /\ fnArg \in ApiRequests
    /\ fnRes = Null
    /\ cron = NoCron
    /\ scans = 0
    /\ \E table \in ApiTables :
         /\ alerts = table
         /\ notifCount = [i \in 1..Len(table) |-> 1]
         /\ lastNotifAt = [i \in 1..Len(table) |-> 0]
    /\ csv = <<ServerA(1)>>
    /\ servers = loadServers(csv)
    /\ isChecking = FALSE
    /\ retestQueue = <<>>
    /\ drains = <<>>
    /\ scanBatch = <<>>
    /\ scanRest = <<>>
    /\ allPendingAlerts = <<>>
    /\ outbox = <<>>
    /\ sweep = <<>>
    /\ sweeping = FALSE
    /\ checks = [u \in Urls |-> Null]
    /\ streak = [u \in Urls |-> 0]
    /\ lastOp = Op("init")
    /\ apiBudget = 1
    /\ cycle = NoCycle

CallStatusHandler ==
    /\ fnRes = Null
    /\ LET res == IF fnArg.method = "GET"
                  THEN getStatusHandler(alerts, fnArg.id, fnArg.value, now)
                  ELSE postStatusHandler(alerts, fnArg.id, fnArg.value, now)
       IN  /\ fnRes' = Some([code |-> res.code, before |-> alerts])
           /\ alerts' = res.alerts
    /\ apiBudget' = apiBudget - 1
    /\ lastOp' = Op("api")
    /\ UNCHANGED <<now, csv, servers, isChecking, retestQueue, drains, scanBatch,
                   scanRest, allPendingAlerts, outbox, sweep, sweeping, checks,
                   notifCount, lastNotifAt, streak, fnArg, cron, scans, cycle>>

SpecApi == InitApi /\ [][CallStatusHandler]_vars

\* the request names an alert of the table and a documented value
AllowedRequest ==
    /\ fnArg.value \in {"in_process", "abort", "done"}
    /\ fnArg.id \in 1..Len(alerts)

(***************************************************************************)
(* C33.  A status-update request changes an alert only when the alert id   *)
(* exists and the requested value is in_process, abort or done, for the    *)
(* email link and for the POST body alike: such a request succeeds and     *)
(* sets the status; a request with any other value or an unknown id        *)
(* returns an error and leaves every alert unchanged.                      *)
(***************************************************************************)
StatusUpdateOnlyWhenAllowed ==
    fnRes # Null =>
      IF AllowedRequest
      THEN /\ fnRes[1].code = 200
           /\ alerts = updateAlertStatus(fnRes[1].before, fnArg.id, fnArg.value, now)
      ELSE /\ fnRes[1].code >= 400
           /\ alerts = fnRes[1].before

\* the step processed an offline result of the endpoint and stored a count
\* below the endpoint's threshold
ToleratedStep(url) ==
    /\ OfflineEvalStep(url)
    /\ checks'[url] # Null
    /\ checks'[url][1].consecutive_failures < ThresholdOf(url)

\* the pending notifications of the cycle in flight
PendingInCycle ==
    allPendingAlerts \o Flatten([k \in 1..Len(scanBatch) |-> scanBatch[k].pendingAlerts])

(***************************************************************************)
(* C34.  A tolerated failure (offline result whose count after increment   *)
(* is below the threshold) performs no alert evaluation: the alerts table  *)
(* and the notification history are unchanged, whatever alerts of the      *)
(* endpoint are open and whatever issues the result has, and the cycle     *)
(* gains no pending notification and dispatches no group for the           *)
(* endpoint; the step records the check with its count and schedules the   *)
(* retest.                                                                 *)
(***************************************************************************)
ToleratedFailureEvaluatesNothing ==
    [][\A u \in Urls :
         ToleratedStep(u)
         => /\ alerts' = alerts
            /\ notifCount' = notifCount
            /\ lastNotifAt' = lastNotifAt
            /\ u \notin UrlsOf(PendingInCycle')
            /\ CycleEnds => (/\ outbox' = <<>>
                             /\ PendingInCycle = <<>>)
            /\ ~CycleEnds => outbox' = outbox
            /\ sweep' = sweep
            /\ checks'[u][1].is_online = 0
            /\ \E k \in TasksFor(retestQueue', u) :
                 /\ retestQueue'[k].currentFailures = checks'[u][1].consecutive_failures
                 /\ retestQueue'[k].retestTime = now + RetestDelayMs]_vars

\* a failure was tolerated while an open alert of the endpoint was due for a
\* re-alert
ToleratedBesideDueAlert ==
    \E u \in Urls :
      /\ lastOp.op \in {"scan", "retest"} /\ lastOp.url = u /\ ~lastOp.online
      /\ checks[u] # Null
      /\ checks[u][1].consecutive_failures < ThresholdOf(u)
      /\ \E i \in 1..Len(alerts) :
           /\ alerts[i].server_url = u
           /\ alerts[i].status = "new"
           /\ alerts[i].last_alerted_at + HourMs <= now

(***************************************************************************)
(* C35.  When the result of a full scan is offline and the result stored   *)
(* before for the endpoint was offline with consecutive-failure count c,   *)
(* the new stored count is c + 1; it is 1 only when there is no previous   *)
(* result or the previous result was online.                               *)
(***************************************************************************)
ScanCountsOnFromStore ==
    [][\A u \in Urls :
         (lastOp'.op = "scan" /\ lastOp'.url = u /\ ~lastOp'.online)
         => /\ checks'[u] # Null
            /\ checks'[u][1].consecutive_failures =
                 IF checks[u] # Null /\ checks[u][1].is_online = 0
                 THEN checks[u][1].consecutive_failures + 1
                 ELSE 1]_vars

(***************************************************************************)
(* C36.  After an online result of an endpoint has been processed, by a    *)
(* full scan or by a retest, no retest task of the endpoint remains in     *)
(* the retest queue.                                                       *)
(***************************************************************************)
RecoveryCancelsRetest ==
    [][\A u \in Urls :
         (EvalStep(u) /\ lastOp'.online) => TasksFor(retestQueue', u) = {}]_vars

(***************************************************************************)
(* C37.  In every reachable state every task in the retest queue carries   *)
(* a failure count c with 1 <= c < the failure threshold configured in     *)
(* the descriptor the task holds.                                          *)
(***************************************************************************)
QueuedCountsBelowThreshold ==
    \A k \in 1..Len(retestQueue) :
      /\ 1 <= retestQueue[k].currentFailures
      /\ retestQueue[k].currentFailures < failureThreshold(retestQueue[k].server)

\* a task scheduled by a retest: it carries the count 2
TaskCarriesTwoFailures ==
    \E k \in 1..Len(retestQueue) :
      /\ retestQueue[k].currentFailures = 2
      /\ lastOp.op = "retest"
      /\ lastOp.url = retestQueue[k].server.url

(***************************************************************************)
(* Reloads of the endpoint list.                                           *)
(*                                                                         *)
(* POST /api/servers/upload replaces data/servers.csv and calls            *)
(* loadServers, which assigns a new array to the scheduler's servers; a    *)
(* cycle in flight goes on with the array it loaded.  SpecReload runs the  *)
(* scan and the retest job beside the upload of a list that replaces the   *)
(* endpoint by another; SpecLongReload runs the scan of a list longer than one batch     *)
(* beside uploads.                                                         *)
(***************************************************************************)
MaxUploads == 1

ShortLists == {<<ServerB>>, <<ServerC>>}
LongLists == {LongList, <<ServerC, ServerB>>}

\* router.post('/upload'): the file is moved to data/servers.csv and reloaded
UploadServers(lists) ==
    \E file \in lists :
      /\ apiBudget > 0
      /\ file # csv
      /\ apiBudget' = apiBudget - 1
      /\ csv' = file
      /\ servers' = loadServers(file)
      /\ lastOp' = Op("upload")
      /\ UNCHANGED <<now, isChecking, retestQueue, drains, scanBatch, scanRest,
                     allPendingAlerts, outbox, sweep, sweeping, checks, alerts,
                     notifCount, lastNotifAt, streak, fnArg, fnRes, cron, scans, cycle>>

InitReload == InitWith(<<ServerB>>, MaxUploads)

UploadShort == UploadServers(ShortLists)

NextReload ==
    \/ Tick
    \/ ScanStart
    \/ ScanEval
    \/ RetestTick
    \/ RetestEval
    \/ UploadShort

SpecReload == InitReload /\ [][NextReload]_vars

InitLongReload == InitWith(LongList, MaxUploads)

UploadLong == UploadServers(LongLists)

NextLongReload ==
    \/ ScanStart
    \/ UpScanEval
    \/ UploadLong

SpecLongReload == InitLongReload /\ [][NextLongReload]_vars

UrlsIn(list) == {list[k].url : k \in 1..Len(list)}

\* the step created an alert of the endpoint
AlertCreatedFor(url) ==
    \E i \in 1..Len(alerts') : i > Len(alerts) /\ alerts'[i].server_url = url

(***************************************************************************)
(* C38.  Probes and alert creation happen only for endpoints of the most   *)
(* recently loaded endpoint list: an endpoint that is neither in the list  *)
(* the last scan cycle loaded nor in the list loaded since is not probed,  *)
(* by a scan or by a retest task scheduled earlier, and no alert is        *)
(* created for it.                                                         *)
(***************************************************************************)
OnlyListedEndpointsHandled ==
    [][\A u \in Urls :
         (EvalStep(u) \/ AlertCreatedFor(u))
         => (u \in UrlsIn(cycle'.currentServers) \/ u \in UrlsIn(servers'))]_vars

\* the rows of the cycle's list before the batch in flight
BatchStart == Len(cycle.currentServers) - Len(scanRest) - Len(scanBatch)

====
